---- MODULE Spec2Model ----
(***************************************************************************)
(* cake-stats: the history/rate engine (pkg/history) and the text parser   *)
(* with its multi-queue aggregator (pkg/parser).                           *)
(*                                                                         *)
(* Representation.  A Go string is a sequence of one-character strings, so *)
(* that trimming, suffix tests and number parsing are computed and not     *)
(* assumed.  A float64 is an exact fraction [n, d]: d > 0 is a finite      *)
(* value in lowest terms, d = 0 is +Inf (n = 1), -Inf (n = -1) or NaN      *)
(* (n = 0).  Rounding of float64 and the sign of zero are not modelled.    *)
(* A uint64 is a natural number; the counters of the inputs are far below  *)
(* 2^64, so no sum of the model wraps.                                     *)
(***************************************************************************)
EXTENDS Integers, Sequences, FiniteSets, TLC

VARIABLES
    capacity,      \* HistoryStore.capacity
    pollInterval,  \* Server.pollInterval, the interval handed to Record (seconds)
    ifaces,        \* HistoryStore.ifaces: interface name -> ifaceState
    stats,         \* the slice handed to the last Record call, as Record left it
    lastNow,       \* the clock reading `now` of the last Record call
    prior,         \* history variable: per entry of stats, what the store held for its name when the entry was processed
    obs,           \* history variable: per name with state, the counters of its latest observation
    pushed,        \* history variable: per name, the samples pushed since its state was created (the last `capacity` of them)
    npushed,       \* history variable: per name, how many samples were pushed since its state was created
    fresh,         \* history variable: the names that had no state when the last Record call began
    pruned,        \* history variable: the names that had state when the last Record call began and were absent from its list
    gone,          \* history variable: the names whose state some Record call has discarded
    calls,         \* number of Record calls so far
    muWriter,      \* HistoryStore.mu: held for writing
    muReaders,     \* HistoryStore.mu: the Snapshot calls holding it for reading
    wpc,           \* where the poller is in Record
    wi,            \* Record's loop index i (1-based)
    rpc,           \* per Snapshot caller, where it is in Snapshot
    rleft,         \* per Snapshot caller, the keys of its range loop not yet visited
    rout,          \* per Snapshot caller, its result map `out`
    rseen,         \* history variable: per Snapshot caller, the maps the store held between Record calls while it ran
    committed,     \* history variable: the store's map when the last Record call returned
    held,          \* a Snapshot result a caller keeps: per name, where each element of its slice lives
    report,        \* history variable: the catalogue blocks the report is made of
    tcOut,         \* the text report handed to parseText
    result,        \* the snapshots parseText returned
    pdone,         \* parseText has returned
    hdrWords,      \* the tokens of a tier-name header line handed to parseTierNames
    tnames,        \* the tier names parseTierNames returned
    tdone,         \* parseTierNames has returned
    ctxDone,       \* the context handed to Run has been cancelled
    tickC,         \* ticks waiting in ticker.C, a channel of capacity 1
    spc,           \* where Run and then the poller goroutine is
    loop,          \* runPoller has begun: the ticker exists
    polled,        \* forcePoll's local `stats`, the result of CollectStats
    polls,         \* number of polls runPoller has started
    sstats,        \* Server.stats
    clients,       \* Server.clients: per registered SSE client, the events waiting in its channel
    bcasts,        \* number of broadcast calls so far; the n-th call sends event n
    missed,        \* history variable: polls that failed since the last poll that ran to its end
    bleft          \* broadcast's range loop: the registered clients it has yet to send to

hvars == <<capacity, pollInterval, ifaces, stats, lastNow, prior, obs, pushed, npushed, fresh, pruned, gone, calls>>

cvars == <<muWriter, muReaders, wpc, wi, rpc, rleft, rout, rseen, committed, held>>

pvars == <<report, tcOut, result, pdone>>

tvars == <<hdrWords, tnames, tdone>>

svars == <<ctxDone, tickC, spc, loop, polled, polls, sstats, clients, bcasts, missed, bleft>>

vars == <<hvars, cvars, pvars, tvars, svars>>

-----------------------------------------------------------------------------
(* Bounds *)

MaxCapReq == 3      \* largest capacity requested from NewHistoryStore
MaxCalls == 2       \* Record calls per behaviour of Spec
MaxPollCalls == 3   \* Record calls per behaviour of SpecPoll
MaxRingCalls == 8   \* Record calls per behaviour of SpecRing
MaxConcCalls == 2   \* Record calls per behaviour of SpecConc
MaxBlocks == 4      \* blocks per report of SpecParse
MaxWords == 3       \* tokens per tier-name header line of SpecTier
MaxPolls == 2       \* polls runPoller starts per behaviour of SpecServer
MaxClock == 2       \* latest clock reading of SpecServer, in seconds
MaxBroadcasts == 5  \* broadcast calls per behaviour of SpecSSE
MaxHoldCalls == 4   \* Record calls per behaviour of SpecHold

-----------------------------------------------------------------------------
(* Strings *)

\* the white space of strings.TrimSpace and strings.Fields within the inputs
SpaceChars == {" ", "\t", "\n", "\r"}

\* s from its first character that is not white space
TrimLeftSpace(s) ==
    IF \A i \in 1..Len(s) : s[i] \in SpaceChars THEN <<>>
    ELSE SubSeq(s, CHOOSE i \in 1..Len(s) :
                       s[i] \notin SpaceChars /\ \A j \in 1..(i - 1) : s[j] \in SpaceChars,
                Len(s))

\* s up to its last character that is not in cutset
TrimRight(s, cutset) ==
    IF \A i \in 1..Len(s) : s[i] \in cutset THEN <<>>
    ELSE SubSeq(s, 1, CHOOSE i \in 1..Len(s) :
                          s[i] \notin cutset /\ \A j \in (i + 1)..Len(s) : s[j] \in cutset)

TrimRightSpace(s) == TrimRight(s, SpaceChars)

TrimSpace(s) == TrimRightSpace(TrimLeftSpace(s))

HasSuffix(s, sfx) ==
    /\ Len(s) >= Len(sfx)
    /\ SubSeq(s, Len(s) - Len(sfx) + 1, Len(s)) = sfx

TrimSuffix(s, sfx) ==
    IF HasSuffix(s, sfx) THEN SubSeq(s, 1, Len(s) - Len(sfx)) ELSE s

DigitChars == <<"0", "1", "2", "3", "4", "5", "6", "7", "8", "9">>

IsDigit(c) == \E i \in 1..10 : DigitChars[i] = c

DigitVal(c) == (CHOOSE i \in 1..10 : DigitChars[i] = c) - 1

-----------------------------------------------------------------------------
(* float64 as exact fractions *)

Abs(x) == IF x < 0 THEN -x ELSE x

RECURSIVE Gcd(_, _)
Gcd(a, b) == IF b = 0 THEN a ELSE Gcd(b, a % b)

Sign(x) == IF x > 0 THEN 1 ELSE IF x < 0 THEN -1 ELSE 0

\* float64(a) / float64(b) for integers a, b
FDiv(a, b) ==
    IF b = 0 THEN [n |-> Sign(a), d |-> 0]
    ELSE LET g == Gcd(Abs(a), Abs(b))
         IN [n |-> (Sign(b) * a) \div g, d |-> Abs(b) \div g]

FZero == [n |-> 0, d |-> 1]

FIsNaN(x) == x.d = 0 /\ x.n = 0

\* x > y on float64: false when either is NaN
FGt(x, y) ==
    /\ ~FIsNaN(x)
    /\ ~FIsNaN(y)
    /\ IF x.d = 0 THEN x.n = 1 /\ ~(y.d = 0 /\ y.n = 1)
       ELSE IF y.d = 0 THEN y.n = -1
       ELSE x.n * y.d > y.n * x.d

\* x >= y on float64: false when either is NaN
FGe(x, y) == ~FIsNaN(x) /\ ~FIsNaN(y) /\ ~FGt(y, x)

\* x * float64(k) and x / float64(k) for an integer k > 0
FMulInt(x, k) == IF x.d = 0 THEN x ELSE FDiv(x.n * k, x.d)

FDivInt(x, k) == IF x.d = 0 THEN x ELSE FDiv(x.n, x.d * k)

-----------------------------------------------------------------------------
(* pkg/history: delay strings *)

RECURSIVE DigitsValue(_)
DigitsValue(s) ==
    IF Len(s) = 0 THEN 0 ELSE DigitsValue(SubSeq(s, 1, Len(s) - 1)) * 10 + DigitVal(s[Len(s)])

RECURSIVE Pow10(_)
Pow10(k) == IF k = 0 THEN 1 ELSE 10 * Pow10(k - 1)

\* strconv.ParseFloat on the decimal forms [sign] digits [. digits]; any other
\* text is an error (exponents, "inf", "nan" and hex forms are not in the inputs)
ParseFloat(str) ==
    LET neg == Len(str) > 0 /\ str[1] = "-"
        body == IF Len(str) > 0 /\ str[1] \in {"+", "-"} THEN Tail(str) ELSE str
        dots == {i \in 1..Len(body) : body[i] = "."}
        digs == SelectSeq(body, IsDigit)
        frac == IF dots = {} THEN 0 ELSE Len(body) - (CHOOSE i \in dots : TRUE)
        ok == /\ Cardinality(dots) <= 1
              /\ Len(digs) >= 1
              /\ \A i \in 1..Len(body) : IsDigit(body[i]) \/ body[i] = "."
    IN IF ok
       THEN [ok |-> TRUE,
             v |-> FDiv((IF neg THEN -1 ELSE 1) * DigitsValue(digs), Pow10(frac))]
       ELSE [ok |-> FALSE, v |-> FZero]

DelaySuffixes == << <<"u", "s">>, <<"m", "s">>, <<"s">> >>

parseDelayMs(str) ==
    LET s == TrimSpace(str)
        hits == {i \in 1..Len(DelaySuffixes) : HasSuffix(s, DelaySuffixes[i])}
    IN IF s = <<>> \/ s = <<"0">> THEN FZero
       ELSE IF hits = {} THEN FZero
       ELSE LET k == CHOOSE i \in hits : \A j \in hits : i <= j
                unit == DelaySuffixes[k]
                p == ParseFloat(TrimSuffix(s, unit))
            IN IF ~p.ok THEN FZero
               ELSE IF unit = <<"u", "s">> THEN FDivInt(p.v, 1000)
               ELSE IF unit = <<"m", "s">> THEN p.v
               ELSE FMulInt(p.v, 1000)

\* the tiers a snapshot of the history inputs may carry
TierA == [Bytes |-> 1, AvDelay |-> <<"5", "0", "0", "u", "s">>, PkDelay |-> <<>>]
TierB == [Bytes |-> 2, AvDelay |-> <<"5", "m", "s">>, PkDelay |-> <<"1", "s">>]

HistoryTiers == {TierA, TierB}

\* parseDelayMs tabulated over the delay strings of the inputs (evaluated once)
DelayMsTable ==
    [s \in {t[f] : t \in HistoryTiers, f \in {"AvDelay", "PkDelay"}} |-> parseDelayMs(s)]

RECURSIVE maxDelayMsFrom(_, _, _, _)
maxDelayMsFrom(tiers, field, i, best) ==
    IF i > Len(tiers) THEN best
    ELSE LET v == DelayMsTable[tiers[i][field]]
         IN maxDelayMsFrom(tiers, field, i + 1, IF FGt(v, best) THEN v ELSE best)

maxDelayMs(tiers, field) == maxDelayMsFrom(tiers, field, 1, FZero)

-----------------------------------------------------------------------------
(* pkg/history: per-interface state and ring buffer *)

RECURSIVE SumTierBytes(_, _)
SumTierBytes(tiers, i) ==
    IF i > Len(tiers) THEN 0 ELSE tiers[i].Bytes + SumTierBytes(tiers, i + 1)

txBytes(cs) ==
    IF cs.SentBytes > 0 THEN cs.SentBytes ELSE SumTierBytes(cs.Tiers, 1)

ZeroSample == [T |-> 0, Tx |-> FZero, Av |-> FZero, Pk |-> FZero, Dr |-> FZero]

newIfaceState(cap, cs, seedNow) ==
    [prevTxBytes |-> txBytes(cs),
     prevDropped |-> cs.Dropped,
     prevTime |-> seedNow,
     samples |-> [i \in 0..(cap - 1) |-> ZeroSample],
     head |-> 0,
     count |-> 0]

\* a push that counts every sample
pushCounting(st, s, cap) ==
    [st EXCEPT !.samples = [st.samples EXCEPT ![st.head] = s],
               !.head = (st.head + 1) % cap,
               !.count = st.count + 1]

push(st, s, cap) ==
    [st EXCEPT !.samples = [st.samples EXCEPT ![st.head] = s],
               !.head = (st.head + 1) % cap,
               !.count = IF st.count < cap THEN st.count + 1 ELSE st.count]

\* arr[lo:hi] as a sequence
Slice(arr, lo, hi) == [k \in 1..(hi - lo) |-> arr[lo + k - 1]]

\* ordered without the wrap-around branch
orderedNoWrap(st, cap) ==
    IF st.count = 0 THEN <<>> ELSE Slice(st.samples, 0, st.count)

ordered(st, cap) ==
    IF st.count = 0 THEN <<>>
    ELSE IF st.count < cap THEN Slice(st.samples, 0, st.count)
    ELSE Slice(st.samples, st.head, cap) \o Slice(st.samples, 0, st.head)

\* An element of a slice handed to a caller: its value, and the slot of the
\* interface's backing array it shares (-1 when the slice owns its memory).
Private(v) == [val |-> v, addr |-> -1]

\* a slice of the backing array itself while the buffer has not wrapped
orderedAliased(st, cap) ==
    IF st.count = 0 THEN <<>>
    ELSE IF st.count < cap THEN [k \in 1..st.count |-> [val |-> st.samples[k - 1], addr |-> k - 1]]
    ELSE [k \in 1..cap |-> Private(ordered(st, cap)[k])]

\* ordered, lines 65-71: out := make([]HistorySample, st.count) and copy
orderedCells(st, cap) ==
    [k \in 1..Len(ordered(st, cap)) |-> Private(ordered(st, cap)[k])]

\* Snapshot, lines 150-156, with the memory each slice lives in
SnapshotCells(ifs, cap) ==
    [k \in {x \in DOMAIN ifs : Len(orderedCells(ifs[x], cap)) > 0} |-> orderedCells(ifs[k], cap)]

NewHistoryStore(capReq) == IF capReq < 2 THEN 2 ELSE capReq

-----------------------------------------------------------------------------
(* pkg/history: Record and Snapshot *)

\* the measured time with no fallback
elapsedSecondsMeasured(now, prevTime, interval) == now - prevTime

\* an elapsed time counted in ticks: one nominal interval per observation
elapsedSecondsByTick(now, prevTime, interval) == interval

\* Record, lines 105-108
elapsedSeconds(now, prevTime, interval) ==
    IF now - prevTime <= 0 THEN interval ELSE now - prevTime

\* Record, lines 110-117: the guarded difference over a counter
guardedRate(curr, prev, elapsed) ==
    IF curr >= prev THEN FDiv(curr - prev, elapsed) ELSE FZero

Put(f, k, v) == [x \in (DOMAIN f) \cup {k} |-> IF x = k THEN v ELSE f[x]]

LastN(seq, n) == IF Len(seq) <= n THEN seq ELSE SubSeq(seq, Len(seq) - n + 1, Len(seq))

\* Record, lines 105-130: the sample computed for cs against the state st
sampleFor(st, cs, now, interval) ==
    LET elapsed == elapsedSeconds(now, st.prevTime, interval)
    IN [T |-> now,
        Tx |-> guardedRate(txBytes(cs), st.prevTxBytes, elapsed),
        Av |-> maxDelayMs(cs.Tiers, "AvDelay"),
        Pk |-> maxDelayMs(cs.Tiers, "PkDelay"),
        Dr |-> guardedRate(cs.Dropped, st.prevDropped, elapsed)]

\* One iteration of Record's loop (lines 98-133) on stats[i].  h carries the
\* store's map and the slice, and the history variables prior, obs, pushed
\* and npushed.
RecordOne(h, i, now, seedNow, interval, cap) ==
    LET cs == h.stats[i]
        key == cs.Interface
        raw == [SentBytes |-> cs.SentBytes, Dropped |-> cs.Dropped]
    IN IF key \notin DOMAIN h.ifaces
       THEN [h EXCEPT !.ifaces = Put(h.ifaces, key, newIfaceState(cap, cs, seedNow)),
                      !.prior[i] = [first |-> TRUE, SentBytes |-> 0, Dropped |-> 0,
                                    prevTxBytes |-> 0, prevTime |-> 0, sample |-> ZeroSample],
                      !.obs = Put(h.obs, key, raw),
                      !.pushed = Put(h.pushed, key, <<>>),
                      !.npushed = Put(h.npushed, key, 0)]
       ELSE LET st == h.ifaces[key]
                smp == sampleFor(st, cs, now, interval)
                st2 == [push(st, smp, cap) EXCEPT !.prevTxBytes = txBytes(cs),
                                                  !.prevDropped = cs.Dropped,
                                                  !.prevTime = now]
            IN [h EXCEPT !.ifaces = Put(h.ifaces, key, st2),
                         !.stats[i] = [cs EXCEPT !.TxBytesPerS = smp.Tx,
                                                 !.DropsPerS = smp.Dr,
                                                 !.MaxAvDelayMs = smp.Av,
                                                 !.MaxPkDelayMs = smp.Pk],
                         !.prior[i] = [first |-> FALSE,
                                       SentBytes |-> h.obs[key].SentBytes,
                                       Dropped |-> h.obs[key].Dropped,
                                       prevTxBytes |-> st.prevTxBytes,
                                       prevTime |-> st.prevTime,
                                       sample |-> smp],
                         !.obs = Put(h.obs, key, raw),
                         !.pushed = Put(h.pushed, key, LastN(Append(h.pushed[key], smp), cap)),
                         !.npushed = Put(h.npushed, key, h.npushed[key] + 1)]

RECURSIVE RecordLoop(_, _, _, _, _, _)
RecordLoop(h, i, now, seedNow, interval, cap) ==
    IF i > Len(h.stats) THEN h
    ELSE RecordLoop(RecordOne(h, i, now, seedNow, interval, cap), i + 1, now, seedNow, interval, cap)

ActiveNames(in) == {in[i].Interface : i \in 1..Len(in)}

Restrict(f, keep) == [x \in (DOMAIN f) \cap keep |-> f[x]]

\* Record without its pruning loop
PruneNothing(ifs, in) == ifs

\* a pruning loop that is skipped when the list is empty
PruneUnlessEmpty(ifs, in) == IF in = <<>> THEN ifs ELSE Restrict(ifs, ActiveNames(in))

\* Record, lines 136-144
Prune(ifs, in) == Restrict(ifs, ActiveNames(in))

Snapshot(ifs, cap) ==
    [k \in {x \in DOMAIN ifs : Len(ordered(ifs[x], cap)) > 0} |-> ordered(ifs[k], cap)]

-----------------------------------------------------------------------------
(* Inputs of the history engine *)

eth0 == <<"e", "t", "h", "0">>
eth1 == <<"e", "t", "h", "1">>

\* clock readings: a later reading may be equal, larger or smaller
Times == {0, 1}

\* nominal poll intervals, in seconds
Intervals == {-1, 0, 1}

\* a snapshot as the parser hands it over: the derived fields are zero
CakeStatsIn(name, sent, dropped, tiers) ==
    [Interface |-> name, SentBytes |-> sent, Dropped |-> dropped, Tiers |-> tiers,
     TxBytesPerS |-> FZero, DropsPerS |-> FZero, MaxAvDelayMs |-> FZero, MaxPkDelayMs |-> FZero]

SnapshotInputs ==
    {CakeStatsIn(eth0, 1, 1, <<>>),
     CakeStatsIn(eth0, 2, 2, <<>>),
     CakeStatsIn(eth0, 0, 0, <<TierA, TierB>>),
     CakeStatsIn(eth1, 0, 0, <<>>)}

\* the snapshot lists of one poll: none, one or two snapshots, the same
\* interface name possibly twice
StatsInputs ==
    {<<>>} \cup {<<a>> : a \in SnapshotInputs} \cup {<<a, b>> : a \in SnapshotInputs, b \in SnapshotInputs}

\* two interfaces with steady counters, each present or absent in a poll
PollInputs ==
    LET S == {CakeStatsIn(eth0, 1, 0, <<>>), CakeStatsIn(eth1, 0, 0, <<>>)}
    IN {<<>>} \cup {<<a>> : a \in S} \cup {<<a, b>> : a \in S, b \in S}

\* one interface polled again and again
RingInputs == {<<CakeStatsIn(eth0, b, b - 1, <<>>)>> : b \in {1, 2}}

-----------------------------------------------------------------------------
(* The history engine, one Record call per step *)

\* the goroutines that call Snapshot, each again and again
Readers == {"r1", "r2"}

\* no Record or Snapshot call is under way
ConcIdle ==
    /\ muWriter = FALSE
    /\ muReaders = {}
    /\ wpc = "idle"
    /\ wi = 0
    /\ rpc = [r \in Readers |-> "idle"]
    /\ rleft = [r \in Readers |-> {}]
    /\ rout = [r \in Readers |-> <<>>]
    /\ rseen = [r \in Readers |-> {}]
    /\ committed = <<>>
    /\ held = <<>>

\* no report has been read
ParserIdle ==
    /\ report = <<>>
    /\ tcOut = <<>>
    /\ result = <<>>
    /\ pdone = FALSE

TierIdle ==
    /\ hdrWords = <<>>
    /\ tnames = <<>>
    /\ tdone = FALSE

\* no server has been started
ServerIdle ==
    /\ ctxDone = FALSE
    /\ tickC = 0
    /\ spc = "returned"
    /\ loop = FALSE
    /\ polled = <<>>
    /\ polls = 0
    /\ sstats = <<>>
    /\ clients = <<>>
    /\ bcasts = 0
    /\ missed = 0
    /\ bleft = {}

\* NewHistoryStore: an empty map
HistoryEmpty ==
    /\ ifaces = <<>>
    /\ stats = <<>>
    /\ lastNow = 0
    /\ prior = <<>>
    /\ obs = <<>>
    /\ pushed = <<>>
    /\ npushed = <<>>
    /\ fresh = {}
    /\ pruned = {}
    /\ gone = {}
    /\ calls = 0

HInit ==
    /\ capacity \in {NewHistoryStore(c) : c \in 0..MaxCapReq}
    /\ pollInterval \in Intervals
    /\ HistoryEmpty
    /\ ConcIdle
    /\ ParserIdle
    /\ TierIdle
    /\ ServerIdle

\* HistoryStore.Record(in, pollInterval) with the clock reading `now`; the
\* reading taken by newIfaceState within the same call is the same instant
RecordWith(in, now) ==
    LET h0 == [ifaces |-> ifaces, stats |-> in,
               prior |-> [i \in 1..Len(in) |-> 0],
               obs |-> obs, pushed |-> pushed, npushed |-> npushed]
        h == RecordLoop(h0, 1, now, now, pollInterval, capacity)
        act == ActiveNames(in)
        kept == DOMAIN Prune(h.ifaces, in)
    IN /\ ifaces' = Prune(h.ifaces, in)
       /\ stats' = h.stats
       /\ prior' = h.prior
       /\ obs' = Restrict(h.obs, kept)
       /\ pushed' = Restrict(h.pushed, kept)
       /\ npushed' = Restrict(h.npushed, kept)
       /\ fresh' = act \ DOMAIN ifaces
       /\ pruned' = (DOMAIN ifaces) \ act
       /\ gone' = gone \cup ((DOMAIN ifaces) \ act)
       /\ lastNow' = now
       /\ calls' = calls + 1
       /\ UNCHANGED <<capacity, pollInterval>>
       /\ UNCHANGED cvars
       /\ UNCHANGED <<pvars, tvars>>

Record ==
    /\ calls < MaxCalls
    /\ \E in \in StatsInputs, now \in Times : RecordWith(in, now)
    /\ UNCHANGED svars

RecordPoll ==
    /\ calls < MaxPollCalls
    /\ \E in \in PollInputs, now \in Times : RecordWith(in, now)
    /\ UNCHANGED svars

RecordRing ==
    /\ calls < MaxRingCalls
    /\ \E in \in RingInputs, now \in Times : RecordWith(in, now)
    /\ UNCHANGED svars

Next == Record

Spec == HInit /\ [][Next]_vars

NextPoll == RecordPoll

SpecPoll == HInit /\ [][NextPoll]_vars

NextRing == RecordRing

SpecRing == HInit /\ [][NextRing]_vars

\* one interface that is polled with changing counters, or missing
HoldInputs == RingInputs \cup {<<>>}

RecordHold ==
    /\ calls < MaxHoldCalls
    /\ \E in \in HoldInputs, now \in Times : RecordWith(in, now)
    /\ UNCHANGED svars

\* a caller takes a Snapshot between two Record calls and keeps the result
HoldSnapshot ==
    /\ held' = SnapshotCells(ifaces, capacity)
    /\ UNCHANGED <<muWriter, muReaders, wpc, wi, rpc, rleft, rout, rseen, committed>>
    /\ UNCHANGED <<hvars, pvars, tvars, svars>>

NextHold == RecordHold \/ HoldSnapshot

SpecHold == HInit /\ [][NextHold]_vars

-----------------------------------------------------------------------------
(* Record and Snapshot as concurrent calls on HistoryStore.mu.  The one     *)
(* poller goroutine calls Record; HTTP handlers call Snapshot.  A step is   *)
(* one write to the shared map or to a ring buffer, or one lock operation.  *)
(* A Lock call that waits does not hold back new RLock calls here, which    *)
(* allows every interleaving sync.RWMutex allows and more.                  *)

\* hs.mu.Lock() can return
CanLock == ~muWriter /\ muReaders = {}

\* an RLock that does not wait for the writer
CanRLockAlways == TRUE

\* hs.mu.RLock() can return
CanRLock == ~muWriter

\* the history variables follow the map through one loop iteration
LoopState ==
    [ifaces |-> ifaces, stats |-> stats, prior |-> prior,
     obs |-> obs, pushed |-> pushed, npushed |-> npushed]

SetLoopState(h) ==
    /\ ifaces' = h.ifaces
    /\ stats' = h.stats
    /\ prior' = h.prior
    /\ obs' = h.obs
    /\ pushed' = h.pushed
    /\ npushed' = h.npushed

\* Record, line 93: the poller reads the clock and is about to take the lock
WStart ==
    /\ wpc = "idle"
    /\ calls < MaxConcCalls
    /\ \E in \in PollInputs, now \in Times :
          /\ stats' = in
          /\ lastNow' = now
          /\ prior' = [i \in 1..Len(in) |-> 0]
          /\ fresh' = ActiveNames(in) \ DOMAIN ifaces
          /\ pruned' = (DOMAIN ifaces) \ ActiveNames(in)
          /\ gone' = gone \cup ((DOMAIN ifaces) \ ActiveNames(in))
    /\ wpc' = "lock"
    /\ UNCHANGED <<capacity, pollInterval, ifaces, obs, pushed, npushed, calls>>
    /\ UNCHANGED <<muWriter, muReaders, wi, rpc, rleft, rout, rseen, committed, held>>
    /\ UNCHANGED <<pvars, tvars, svars>>

\* Record, line 94
WLock ==
    /\ wpc = "lock"
    /\ CanLock
    /\ muWriter' = TRUE
    /\ wpc' = "loop"
    /\ wi' = 1
    /\ UNCHANGED hvars
    /\ UNCHANGED <<muReaders, rpc, rleft, rout, rseen, committed, held>>
    /\ UNCHANGED <<pvars, tvars, svars>>

\* Record, lines 98-104: a name without state is seeded
WSeed ==
    /\ wpc = "loop"
    /\ wi <= Len(stats)
    /\ stats[wi].Interface \notin DOMAIN ifaces
    /\ SetLoopState(RecordOne(LoopState, wi, lastNow, lastNow, pollInterval, capacity))
    /\ wi' = wi + 1
    /\ UNCHANGED <<capacity, pollInterval, lastNow, fresh, pruned, gone, calls>>
    /\ UNCHANGED <<muWriter, muReaders, wpc, rpc, rleft, rout, rseen, committed, held>>
    /\ UNCHANGED <<pvars, tvars, svars>>

\* Record, lines 105-130 and push, line 54: the sample is computed and written
\* into the slot at head
WSlot ==
    /\ wpc = "loop"
    /\ wi <= Len(stats)
    /\ stats[wi].Interface \in DOMAIN ifaces
    /\ LET key == stats[wi].Interface
           st == ifaces[key]
           smp == sampleFor(st, stats[wi], lastNow, pollInterval)
       IN ifaces' = [ifaces EXCEPT ![key].samples[st.head] = smp]
    /\ wpc' = "push"
    /\ UNCHANGED <<capacity, pollInterval, stats, lastNow, prior, obs, pushed, npushed, fresh, pruned, gone, calls>>
    /\ UNCHANGED <<muWriter, muReaders, wi, rpc, rleft, rout, rseen, committed, held>>
    /\ UNCHANGED <<pvars, tvars, svars>>

\* push, lines 55-58 and Record, lines 120-123 and 131-133: head and count
\* move on, the previous values are replaced
WAdvance ==
    /\ wpc = "push"
    /\ SetLoopState(RecordOne(LoopState, wi, lastNow, lastNow, pollInterval, capacity))
    /\ wi' = wi + 1
    /\ wpc' = "loop"
    /\ UNCHANGED <<capacity, pollInterval, lastNow, fresh, pruned, gone, calls>>
    /\ UNCHANGED <<muWriter, muReaders, rpc, rleft, rout, rseen, committed, held>>
    /\ UNCHANGED <<pvars, tvars, svars>>

\* Record, line 97: the loop is over
WLoopEnd ==
    /\ wpc = "loop"
    /\ wi > Len(stats)
    /\ wpc' = "prune"
    /\ UNCHANGED hvars
    /\ UNCHANGED <<muWriter, muReaders, wi, rpc, rleft, rout, rseen, committed, held>>
    /\ UNCHANGED <<pvars, tvars, svars>>

\* Record, lines 140-144: one absent key is deleted
WPruneOne ==
    /\ wpc = "prune"
    /\ \E key \in (DOMAIN ifaces) \ ActiveNames(stats) :
          LET kept == (DOMAIN ifaces) \ {key}
          IN /\ ifaces' = Restrict(ifaces, kept)
             /\ obs' = Restrict(obs, kept)
             /\ pushed' = Restrict(pushed, kept)
             /\ npushed' = Restrict(npushed, kept)
    /\ UNCHANGED <<capacity, pollInterval, stats, lastNow, prior, fresh, pruned, gone, calls>>
    /\ UNCHANGED cvars
    /\ UNCHANGED <<pvars, tvars, svars>>

\* Record, line 95 (deferred): the call returns
WUnlock ==
    /\ wpc = "prune"
    /\ ifaces = Prune(ifaces, stats)
    /\ muWriter' = FALSE
    /\ wpc' = "idle"
    /\ wi' = 0
    /\ calls' = calls + 1
    /\ committed' = ifaces
    /\ rseen' = [r \in Readers |-> IF rpc[r] = "copy" THEN rseen[r] \cup {ifaces} ELSE rseen[r]]
    /\ UNCHANGED <<capacity, pollInterval, ifaces, stats, lastNow, prior, obs, pushed, npushed, fresh, pruned, gone>>
    /\ UNCHANGED <<muReaders, rpc, rleft, rout, held>>
    /\ UNCHANGED <<pvars, tvars, svars>>

\* Snapshot, lines 148-151: the read lock is taken, the range loop begins
RLock(r) ==
    /\ rpc[r] = "idle"
    /\ CanRLock
    /\ muReaders' = muReaders \cup {r}
    /\ rpc' = [rpc EXCEPT ![r] = "copy"]
    /\ rleft' = [rleft EXCEPT ![r] = DOMAIN ifaces]
    /\ rout' = [rout EXCEPT ![r] = <<>>]
    /\ rseen' = [rseen EXCEPT ![r] = {committed}]
    /\ UNCHANGED hvars
    /\ UNCHANGED <<muWriter, wpc, wi, committed, held>>
    /\ UNCHANGED <<pvars, tvars, svars>>

\* Snapshot, lines 151-155: one key's buffer is copied
RCopy(r) ==
    /\ rpc[r] = "copy"
    /\ \E key \in rleft[r] :
          /\ rleft' = [rleft EXCEPT ![r] = rleft[r] \ {key}]
          /\ rout' = [rout EXCEPT ![r] =
                 IF key \in DOMAIN ifaces /\ Len(ordered(ifaces[key], capacity)) > 0
                 THEN Put(rout[r], key, ordered(ifaces[key], capacity))
                 ELSE rout[r]]
    /\ UNCHANGED hvars
    /\ UNCHANGED <<muWriter, muReaders, wpc, wi, rpc, rseen, committed, held>>
    /\ UNCHANGED <<pvars, tvars, svars>>

\* Snapshot, lines 149 (deferred) and 156
RUnlock(r) ==
    /\ rpc[r] = "copy"
    /\ rleft[r] = {}
    /\ muReaders' = muReaders \ {r}
    /\ rpc' = [rpc EXCEPT ![r] = "done"]
    /\ UNCHANGED hvars
    /\ UNCHANGED <<muWriter, wpc, wi, rleft, rout, rseen, committed, held>>
    /\ UNCHANGED <<pvars, tvars, svars>>

\* handleAPIHistory: the result is encoded and sent
RReturn(r) ==
    /\ rpc[r] = "done"
    /\ rpc' = [rpc EXCEPT ![r] = "idle"]
    /\ rout' = [rout EXCEPT ![r] = <<>>]
    /\ rseen' = [rseen EXCEPT ![r] = {}]
    /\ UNCHANGED hvars
    /\ UNCHANGED <<muWriter, muReaders, wpc, wi, rleft, committed, held>>
    /\ UNCHANGED <<pvars, tvars, svars>>

ConcInit ==
    /\ capacity \in {NewHistoryStore(c) : c \in 0..MaxCapReq}
    /\ pollInterval = 1
    /\ HistoryEmpty
    /\ ConcIdle
    /\ ParserIdle
    /\ TierIdle
    /\ ServerIdle

NextConc ==
    \/ WStart
    \/ WLock
    \/ WSeed
    \/ WSlot
    \/ WAdvance
    \/ WLoopEnd
    \/ WPruneOne
    \/ WUnlock
    \/ \E r \in Readers : RLock(r)
    \/ \E r \in Readers : RCopy(r)
    \/ \E r \in Readers : RUnlock(r)
    \/ \E r \in Readers : RReturn(r)

SpecConc == ConcInit /\ [][NextConc]_vars

-----------------------------------------------------------------------------
(* pkg/parser: the Go string functions the parser uses *)

HasPrefix(s, p) == Len(s) >= Len(p) /\ SubSeq(s, 1, Len(p)) = p

TrimPrefix(s, p) == IF HasPrefix(s, p) THEN SubSeq(s, Len(p) + 1, Len(s)) ELSE s

\* the first position at or after i (1-based) of s that holds a character of
\* set, 0 when there is none
IndexAny(s, set, i) ==
    IF \A j \in i..Len(s) : s[j] \notin set THEN 0
    ELSE CHOOSE j \in i..Len(s) : s[j] \in set /\ \A k \in i..(j - 1) : s[k] \notin set

\* strings.Index: the 0-based offset of the first occurrence of sub, -1 if none
Index(s, sub) ==
    LET hits == {i \in 1..(Len(s) - Len(sub) + 1) : SubSeq(s, i, i + Len(sub) - 1) = sub}
    IN IF hits = {} THEN -1 ELSE (CHOOSE i \in hits : \A j \in hits : i <= j) - 1

Contains(s, sub) == Index(s, sub) # -1

RECURSIVE Fields(_)
Fields(s) ==
    LET t == TrimLeftSpace(s)
        sp == IndexAny(t, SpaceChars, 1)
        e == IF sp = 0 THEN Len(t) + 1 ELSE sp
    IN IF t = <<>> THEN <<>> ELSE <<SubSeq(t, 1, e - 1)>> \o Fields(SubSeq(t, e, Len(t)))

\* strings.Split on a one-character separator: s itself when it holds no
\* separator, else the pieces of the two halves of s, the last piece of the
\* left half joined to the first of the right
RECURSIVE Split(_, _)
Split(s, sep) ==
    IF \A i \in 1..Len(s) : s[i] # sep THEN <<s>>
    ELSE IF Len(s) = 1 THEN << <<>>, <<>> >>
    ELSE LET h == Len(s) \div 2
             l == Split(SubSeq(s, 1, h), sep)
             r == Split(SubSeq(s, h + 1, Len(s)), sep)
         IN SubSeq(l, 1, Len(l) - 1) \o <<l[Len(l)] \o r[1]>> \o Tail(r)

\* strings.SplitN(s, sep, 2)
SplitN2(s, sep) ==
    LET e == IndexAny(s, {sep}, 1)
    IN IF e = 0 THEN <<s>> ELSE <<SubSeq(s, 1, e - 1), SubSeq(s, e + 1, Len(s))>>

\* strconv.ParseUint(s, 10, 64); the inputs stay far below 2^64, so the range
\* error is not modelled
ParseUint(s) ==
    IF Len(s) > 0 /\ \A i \in 1..Len(s) : IsDigit(s[i])
    THEN [ok |-> TRUE, v |-> DigitsValue(s)]
    ELSE [ok |-> FALSE, v |-> 0]

\* fmt.Sprintf("%d", n)
RECURSIVE FormatUint(_)
FormatUint(n) ==
    IF n < 10 THEN <<DigitChars[n + 1]>>
    ELSE FormatUint(n \div 10) \o <<DigitChars[(n % 10) + 1]>>

\* unicode.IsLower on an ASCII byte
IsLower(c) ==
    c \in {"a", "b", "c", "d", "e", "f", "g", "h", "i", "j", "k", "l", "m",
           "n", "o", "p", "q", "r", "s", "t", "u", "v", "w", "x", "y", "z"}

-----------------------------------------------------------------------------
(* pkg/parser: one block of the text report *)

\* types.CakeTier{} and types.CakeStats{}
ZeroTier ==
    [Name |-> <<>>, Thresh |-> <<>>, Target |-> <<>>, Interval |-> <<>>,
     PkDelay |-> <<>>, AvDelay |-> <<>>, SpDelay |-> <<>>, Backlog |-> <<>>,
     Pkts |-> 0, Bytes |-> 0, WayInds |-> 0, WayMiss |-> 0, WayCols |-> 0,
     Drops |-> 0, Marks |-> 0, AckDrop |-> 0, SpFlows |-> 0, BkFlows |-> 0,
     UnFlows |-> 0, MaxLen |-> 0, Quantum |-> 0]

ZeroStats ==
    [Interface |-> <<>>, Handle |-> <<>>, Direction |-> <<>>, Bandwidth |-> <<>>,
     DiffservMode |-> <<>>, RTT |-> <<>>, Overhead |-> <<>>, DualMode |-> <<>>,
     FwmarkMask |-> <<>>, NATEnabled |-> FALSE, WashEnabled |-> FALSE,
     ATMMode |-> <<>>, MPU |-> <<>>, MemLimit |-> <<>>, RawHeader |-> <<>>,
     SentBytes |-> 0, SentPkts |-> 0, Dropped |-> 0, Overlimits |-> 0, Requeues |-> 0,
     BacklogBytes |-> <<>>, BacklogPkts |-> 0,
     MemoryUsed |-> <<>>, MemoryTotal |-> <<>>, CapacityEst |-> <<>>,
     MinNetSize |-> <<>>, MaxNetSize |-> <<>>, MinAdjSize |-> <<>>, MaxAdjSize |-> <<>>,
     AvgHdrOffset |-> <<>>, Tiers |-> <<>>, UpdatedAt |-> 0,
     TxBytesPerS |-> FZero, DropsPerS |-> FZero, MaxAvDelayMs |-> FZero, MaxPkDelayMs |-> FZero]

parseUint64(s) ==
    LET p == ParseUint(TrimRight(s, {"b", "B", "k", "K", "m", "M", "g", "G", "p", "P"}))
    IN IF p.ok THEN p.v ELSE 0

\* parseHeader, lines 755-810: the field an option keyword stores its value in
headerValueField(tok) ==
    CASE tok = <<"b", "a", "n", "d", "w", "i", "d", "t", "h">> -> "Bandwidth"
      [] tok = <<"f", "w", "m", "a", "r", "k">> -> "FwmarkMask"
      [] tok = <<"r", "t", "t">> -> "RTT"
      [] tok = <<"o", "v", "e", "r", "h", "e", "a", "d">> -> "Overhead"
      [] tok = <<"m", "p", "u">> -> "MPU"
      [] tok = <<"m", "e", "m", "l", "i", "m", "i", "t">> -> "MemLimit"
      [] OTHER -> ""

\* parseHeader, lines 755-810: the keywords that take no value
headerFlag(cs, tok) ==
    CASE tok \in {<<"d", "i", "f", "f", "s", "e", "r", "v", "3">>, <<"d", "i", "f", "f", "s", "e", "r", "v", "4">>, <<"d", "i", "f", "f", "s", "e", "r", "v", "8">>, <<"b", "e", "s", "t", "e", "f", "f", "o", "r", "t">>, <<"p", "r", "e", "c", "e", "d", "e", "n", "c", "e">>} ->
             [cs EXCEPT !.DiffservMode = tok]
      [] tok = <<"a", "t", "m">> -> [cs EXCEPT !.ATMMode = <<"a", "t", "m">>]
      [] tok = <<"p", "t", "m">> -> [cs EXCEPT !.ATMMode = <<"p", "t", "m">>]
      [] tok \in {<<"n", "o", "a", "t", "m">>, <<"r", "a", "w">>} -> [cs EXCEPT !.ATMMode = <<"n", "o", "a", "t", "m">>]
      [] tok = <<"a", "u", "t", "o", "r", "a", "t", "e", "-", "i", "n", "g", "r", "e", "s", "s">> -> [cs EXCEPT !.Bandwidth = <<"a", "u", "t", "o", "r", "a", "t", "e", "-", "i", "n", "g", "r", "e", "s", "s">>]
      [] tok \in {<<"f", "l", "o", "w", "b", "l", "i", "n", "d">>, <<"s", "r", "c", "h", "o", "s", "t">>, <<"d", "s", "t", "h", "o", "s", "t">>, <<"h", "o", "s", "t", "s">>, <<"f", "l", "o", "w", "s">>} ->
             [cs EXCEPT !.DualMode = tok]
      [] tok = <<"n", "a", "t">> -> [cs EXCEPT !.NATEnabled = TRUE]
      [] tok = <<"n", "o", "n", "a", "t">> -> [cs EXCEPT !.NATEnabled = FALSE]
      [] tok = <<"w", "a", "s", "h">> -> [cs EXCEPT !.WashEnabled = TRUE]
      [] tok = <<"n", "o", "w", "a", "s", "h">> -> [cs EXCEPT !.WashEnabled = FALSE]
      [] tok \in {<<"d", "u", "a", "l", "-", "s", "r", "c", "h", "o", "s", "t">>, <<"d", "u", "a", "l", "-", "d", "s", "t", "h", "o", "s", "t">>, <<"t", "r", "i", "p", "l", "e", "-", "i", "s", "o", "l", "a", "t", "e">>, <<"s", "i", "n", "g", "l", "e">>} ->
             [cs EXCEPT !.DualMode = tok]
      [] tok = <<"i", "n", "g", "r", "e", "s", "s">> -> [cs EXCEPT !.Direction = <<"i", "n", "g", "r", "e", "s", "s">>]
      [] OTHER -> cs

\* parseHeader, lines 753-811: the loop over the option tokens, from fs[i]
RECURSIVE parseHeaderOpts(_, _, _)
parseHeaderOpts(cs, fs, i) ==
    IF i > Len(fs) THEN cs
    ELSE LET f == headerValueField(fs[i])
         IN IF f # ""
            THEN IF i + 1 <= Len(fs)
                 THEN parseHeaderOpts([cs EXCEPT ![f] = fs[i + 1]], fs, i + 2)
                 ELSE parseHeaderOpts(cs, fs, i + 1)
            ELSE parseHeaderOpts(headerFlag(cs, fs[i]), fs, i + 1)

\* a header parser that takes a block attached under a parent for ingress
parseHeaderByAttachment(cs, line) ==
    LET fs == Fields(TrimSpace(line))
    IN IF Len(fs) < 5 THEN cs
       ELSE parseHeaderOpts([cs EXCEPT !.Handle = TrimSuffix(fs[3], <<":">>),
                                       !.Interface = fs[5],
                                       !.Direction = IF Len(fs) >= 6 /\ fs[6] = <<"p", "a", "r", "e", "n", "t">>
                                                      THEN <<"i", "n", "g", "r", "e", "s", "s">>
                                                      ELSE <<"e", "g", "r", "e", "s", "s">>], fs, 6)

parseHeader(cs, line) ==
    LET fs == Fields(TrimSpace(line))
    IN IF Len(fs) < 5 THEN cs
       ELSE parseHeaderOpts([cs EXCEPT !.Handle = TrimSuffix(fs[3], <<":">>),
                                       !.Interface = fs[5],
                                       !.Direction = <<"e", "g", "r", "e", "s", "s">>], fs, 6)

\* parseSentLine, lines 827-836: the key/value pairs of one comma-separated part
RECURSIVE sentTokens(_, _, _)
sentTokens(cs, tokens, j) ==
    IF j + 1 > Len(tokens) THEN cs
    ELSE LET v == parseUint64(tokens[j + 1])
             cs2 == CASE tokens[j] = <<"d", "r", "o", "p", "p", "e", "d">> -> [cs EXCEPT !.Dropped = v]
                      [] tokens[j] = <<"o", "v", "e", "r", "l", "i", "m", "i", "t", "s">> -> [cs EXCEPT !.Overlimits = v]
                      [] tokens[j] = <<"r", "e", "q", "u", "e", "u", "e", "s">> -> [cs EXCEPT !.Requeues = v]
                      [] OTHER -> cs
         IN sentTokens(cs2, tokens, j + 2)

\* parseSentLine, lines 825-837
RECURSIVE sentParts(_, _, _)
sentParts(cs, parts, k) ==
    IF k > Len(parts) THEN cs
    ELSE sentParts(sentTokens(cs, Fields(TrimSpace(parts[k])), 1), parts, k + 1)

parseSentLine(cs, line) ==
    LET fs == Fields(line)
        cs1 == IF Len(fs) >= 4
               THEN [cs EXCEPT !.SentBytes = parseUint64(fs[2]), !.SentPkts = parseUint64(fs[4])]
               ELSE cs
        s == Index(line, <<"(">>)
        e == Index(line, <<")">>)
    IN IF s # -1 /\ e # -1 /\ e > s
       THEN sentParts(cs1, Split(SubSeq(line, s + 2, e), ","), 1)
       ELSE cs1

parseBacklogLine(cs, line) ==
    LET fs == Fields(line)
    IN IF Len(fs) >= 3
       THEN [cs EXCEPT !.BacklogBytes = fs[2],
                       !.BacklogPkts = parseUint64(TrimSuffix(fs[3], <<"p">>))]
       ELSE cs

parseMemoryLine(cs, line) ==
    LET parts == Fields(TrimSpace(TrimPrefix(line, <<"m", "e", "m", "o", "r", "y", " ", "u", "s", "e", "d", ":">>)))
    IN IF Len(parts) >= 3
       THEN [cs EXCEPT !.MemoryUsed = parts[1], !.MemoryTotal = parts[3]]
       ELSE cs

\* returns <<lo, hi>>
parseMinMax(line) ==
    LET i == Index(line, <<":">>)
        parts == SplitN2(TrimSpace(SubSeq(line, i + 2, Len(line))), "/")
    IN IF i = -1 THEN << <<>>, <<>> >>
       ELSE IF Len(parts) = 2 THEN <<TrimSpace(parts[1]), TrimSpace(parts[2])>>
       ELSE << <<>>, <<>> >>

knownTierWords ==
    {<<"B", "u", "l", "k">>, <<"B", "e", "s", "t">>, <<"V", "o", "i", "c", "e">>, <<"V", "i", "d", "e", "o">>,
     <<"C", "S", "1">>, <<"C", "S", "2">>, <<"C", "S", "3">>, <<"C", "S", "4">>,
     <<"C", "S", "5">>, <<"C", "S", "6">>, <<"C", "S", "7">>, <<"B", "E">>,
     <<"T", "i", "n">>}

isTierHeaderLine(first) == first \in knownTierWords

RECURSIVE parseTierNames(_)
parseTierNames(words) ==
    IF Len(words) = 0 THEN <<>>
    ELSE IF words[1] = <<"B", "e", "s", "t">> /\ Len(words) >= 2 /\ words[2] = <<"E", "f", "f", "o", "r", "t">>
         THEN <<<<"B", "e", "s", "t", " ", "E", "f", "f", "o", "r", "t">>>> \o parseTierNames(SubSeq(words, 3, Len(words)))
    ELSE IF words[1] = <<"T", "i", "n">> /\ Len(words) >= 2
         THEN <<<<"T", "i", "n", " ">> \o words[2]>> \o parseTierNames(SubSeq(words, 3, Len(words)))
    ELSE <<words[1]>> \o parseTierNames(Tail(words))

\* assembleTiers, lines 909-918: get and getU, idx 1-based
tierGet(buf, field, idx) ==
    IF field \notin DOMAIN buf \/ idx > Len(buf[field]) THEN <<>> ELSE buf[field][idx]

tierGetU(buf, field, idx) == parseUint64(tierGet(buf, field, idx))

assembleTiers(names, buf) ==
    [i \in 1..Len(names) |->
        [Name |-> names[i],
         Thresh |-> tierGet(buf, <<"t", "h", "r", "e", "s", "h">>, i),
         Target |-> tierGet(buf, <<"t", "a", "r", "g", "e", "t">>, i),
         Interval |-> tierGet(buf, <<"i", "n", "t", "e", "r", "v", "a", "l">>, i),
         PkDelay |-> tierGet(buf, <<"p", "k", "_", "d", "e", "l", "a", "y">>, i),
         AvDelay |-> tierGet(buf, <<"a", "v", "_", "d", "e", "l", "a", "y">>, i),
         SpDelay |-> tierGet(buf, <<"s", "p", "_", "d", "e", "l", "a", "y">>, i),
         Backlog |-> tierGet(buf, <<"b", "a", "c", "k", "l", "o", "g">>, i),
         Pkts |-> tierGetU(buf, <<"p", "k", "t", "s">>, i),
         Bytes |-> tierGetU(buf, <<"b", "y", "t", "e", "s">>, i),
         WayInds |-> tierGetU(buf, <<"w", "a", "y", "_", "i", "n", "d", "s">>, i),
         WayMiss |-> tierGetU(buf, <<"w", "a", "y", "_", "m", "i", "s", "s">>, i),
         WayCols |-> tierGetU(buf, <<"w", "a", "y", "_", "c", "o", "l", "s">>, i),
         Drops |-> tierGetU(buf, <<"d", "r", "o", "p", "s">>, i),
         Marks |-> tierGetU(buf, <<"m", "a", "r", "k", "s">>, i),
         AckDrop |-> tierGetU(buf, <<"a", "c", "k", "_", "d", "r", "o", "p">>, i),
         SpFlows |-> tierGetU(buf, <<"s", "p", "_", "f", "l", "o", "w", "s">>, i),
         BkFlows |-> tierGetU(buf, <<"b", "k", "_", "f", "l", "o", "w", "s">>, i),
         UnFlows |-> tierGetU(buf, <<"u", "n", "_", "f", "l", "o", "w", "s">>, i),
         MaxLen |-> tierGetU(buf, <<"m", "a", "x", "_", "l", "e", "n">>, i),
         Quantum |-> tierGetU(buf, <<"q", "u", "a", "n", "t", "u", "m">>, i)]]

\* parseCakeBlock, lines 706-734: one line of the block; st carries cs,
\* tierNames, tierFieldBuf and inTable
parseBlockLine(st, line) ==
    LET trimmed == TrimSpace(line)
        fields == Fields(trimmed)
        mmNet == parseMinMax(trimmed)
    IN IF trimmed = <<>> \/ Len(fields) = 0 THEN st
       ELSE IF HasPrefix(trimmed, <<"S", "e", "n", "t", " ">>)
            THEN [st EXCEPT !.cs = parseSentLine(st.cs, trimmed)]
       ELSE IF HasPrefix(trimmed, <<"b", "a", "c", "k", "l", "o", "g", " ">>)
            THEN [st EXCEPT !.cs = parseBacklogLine(st.cs, trimmed)]
       ELSE IF HasPrefix(trimmed, <<"m", "e", "m", "o", "r", "y", " ", "u", "s", "e", "d", ":">>)
            THEN [st EXCEPT !.cs = parseMemoryLine(st.cs, trimmed)]
       ELSE IF HasPrefix(trimmed, <<"c", "a", "p", "a", "c", "i", "t", "y", " ", "e", "s", "t", "i", "m", "a", "t", "e", ":">>)
            THEN [st EXCEPT !.cs.CapacityEst = TrimSpace(TrimPrefix(trimmed, <<"c", "a", "p", "a", "c", "i", "t", "y", " ", "e", "s", "t", "i", "m", "a", "t", "e", ":">>))]
       ELSE IF HasPrefix(trimmed, <<"m", "i", "n", "/", "m", "a", "x", " ", "n", "e", "t", "w", "o", "r", "k", " ", "l", "a", "y", "e", "r", " ", "s", "i", "z", "e", ":">>)
            THEN [st EXCEPT !.cs.MinNetSize = mmNet[1], !.cs.MaxNetSize = mmNet[2]]
       ELSE IF HasPrefix(trimmed, <<"m", "i", "n", "/", "m", "a", "x", " ", "o", "v", "e", "r", "h", "e", "a", "d", "-", "a", "d", "j", "u", "s", "t", "e", "d", " ", "s", "i", "z", "e", ":">>)
            THEN [st EXCEPT !.cs.MinAdjSize = mmNet[1], !.cs.MaxAdjSize = mmNet[2]]
       ELSE IF HasPrefix(trimmed, <<"a", "v", "e", "r", "a", "g", "e", " ", "n", "e", "t", "w", "o", "r", "k", " ", "h", "d", "r", " ", "o", "f", "f", "s", "e", "t", ":">>)
            THEN [st EXCEPT !.cs.AvgHdrOffset = TrimSpace(TrimPrefix(trimmed, <<"a", "v", "e", "r", "a", "g", "e", " ", "n", "e", "t", "w", "o", "r", "k", " ", "h", "d", "r", " ", "o", "f", "f", "s", "e", "t", ":">>))]
       ELSE IF isTierHeaderLine(fields[1])
            THEN [st EXCEPT !.tierNames = parseTierNames(fields), !.inTable = TRUE]
       ELSE IF st.inTable /\ Len(fields) >= 2 /\ IsLower(fields[1][1])
            THEN [st EXCEPT !.buf = Put(st.buf, fields[1], Tail(fields))]
       ELSE st

\* parseCakeBlock, lines 705-735: the loop over lines[1:], from lines[i]
RECURSIVE parseBlockLines(_, _, _)
parseBlockLines(st, lines, i) ==
    IF i > Len(lines) THEN st
    ELSE CHOOSE r \in {parseBlockLines(next, lines, i + 1) :
                           next \in {parseBlockLine(st, lines[i])}} : TRUE    \* next is bound as a value

\* parseCakeBlock for a non-empty block, without the clock reading
parseBlockBody(lines) ==
    LET cs0 == parseHeader([ZeroStats EXCEPT !.RawHeader = TrimSpace(lines[1])], lines[1])
        st == parseBlockLines([cs |-> cs0, tierNames |-> <<>>, buf |-> <<>>, inTable |-> FALSE],
                              lines, 2)
    IN IF Len(st.tierNames) > 0
       THEN [st.cs EXCEPT !.Tiers = assembleTiers(st.tierNames, st.buf)]
       ELSE st.cs

\* The blocks a report is made of, as `tc -s qdisc show` prints them.  kind, dev,
\* handle and parent say what each block is: a cake_mq parent, a CAKE block (a
\* child when parent names the major handle it hangs under) or another discipline.
Catalogue ==
    <<
      [kind |-> "cake_mq", dev |-> <<"e", "t", "h", "0">>, handle |-> <<"1">>, parent |-> <<>>,
       text |-> <<
          \* qdisc cake_mq 1: dev eth0 root
          <<"q", "d", "i", "s", "c", " ", "c", "a", "k", "e", "_", "m", "q", " ", "1", ":", " ", "d", "e", "v", " ", "e", "t", "h", "0", " ", "r", "o", "o", "t">>,
          \*  Sent 450 bytes 5 pkt (dropped 3, overlimits 5 requeues 1)
          <<" ", "S", "e", "n", "t", " ", "4", "5", "0", " ", "b", "y", "t", "e", "s", " ", "5", " ", "p", "k", "t", " ", "(", "d", "r", "o", "p", "p", "e", "d", " ", "3", ",", " ", "o", "v", "e", "r", "l", "i", "m", "i", "t", "s", " ", "5", " ", "r", "e", "q", "u", "e", "u", "e", "s", " ", "1", ")">>,
          \*  backlog 0b 0p requeues 1
          <<" ", "b", "a", "c", "k", "l", "o", "g", " ", "0", "b", " ", "0", "p", " ", "r", "e", "q", "u", "e", "u", "e", "s", " ", "1">> >>],
      [kind |-> "cake", dev |-> <<"e", "t", "h", "0">>, handle |-> <<"0">>, parent |-> <<"1">>,
       text |-> <<
          \* qdisc cake 0: dev eth0 parent 1:1 bandwidth 1Gbit diffserv3 nat rtt 100ms noatm overhead 18
          <<"q", "d", "i", "s", "c", " ", "c", "a", "k", "e", " ", "0", ":", " ", "d", "e", "v", " ", "e", "t", "h", "0", " ", "p", "a", "r", "e", "n", "t", " ", "1", ":", "1", " ", "b", "a", "n", "d", "w", "i", "d", "t", "h", " ", "1", "G", "b", "i", "t", " ", "d", "i", "f", "f", "s", "e", "r", "v", "3", " ", "n", "a", "t", " ", "r", "t", "t", " ", "1", "0", "0", "m", "s", " ", "n", "o", "a", "t", "m", " ", "o", "v", "e", "r", "h", "e", "a", "d", " ", "1", "8">>,
          \*  Sent 200 bytes 2 pkt (dropped 1, overlimits 4 requeues 1)
          <<" ", "S", "e", "n", "t", " ", "2", "0", "0", " ", "b", "y", "t", "e", "s", " ", "2", " ", "p", "k", "t", " ", "(", "d", "r", "o", "p", "p", "e", "d", " ", "1", ",", " ", "o", "v", "e", "r", "l", "i", "m", "i", "t", "s", " ", "4", " ", "r", "e", "q", "u", "e", "u", "e", "s", " ", "1", ")">>,
          \*  backlog 1514b 1p requeues 1
          <<" ", "b", "a", "c", "k", "l", "o", "g", " ", "1", "5", "1", "4", "b", " ", "1", "p", " ", "r", "e", "q", "u", "e", "u", "e", "s", " ", "1">>,
          \*  memory used: 2Kb of 4Mb
          <<" ", "m", "e", "m", "o", "r", "y", " ", "u", "s", "e", "d", ":", " ", "2", "K", "b", " ", "o", "f", " ", "4", "M", "b">>,
          \*  capacity estimate: 1Gbit
          <<" ", "c", "a", "p", "a", "c", "i", "t", "y", " ", "e", "s", "t", "i", "m", "a", "t", "e", ":", " ", "1", "G", "b", "i", "t">>,
          \*  min/max network layer size:           28 /    1500
          <<" ", "m", "i", "n", "/", "m", "a", "x", " ", "n", "e", "t", "w", "o", "r", "k", " ", "l", "a", "y", "e", "r", " ", "s", "i", "z", "e", ":", " ", " ", " ", " ", " ", " ", " ", " ", " ", " ", " ", "2", "8", " ", "/", " ", " ", " ", " ", "1", "5", "0", "0">>,
          \*                    Bulk  Best Effort        Voice
          <<" ", " ", " ", " ", " ", " ", " ", " ", " ", " ", " ", " ", " ", " ", " ", " ", " ", " ", " ", "B", "u", "l", "k", " ", " ", "B", "e", "s", "t", " ", "E", "f", "f", "o", "r", "t", " ", " ", " ", " ", " ", " ", " ", " ", "V", "o", "i", "c", "e">>,
          \*   thresh        62500Kbit        1Gbit      250Mbit
          <<" ", " ", "t", "h", "r", "e", "s", "h", " ", " ", " ", " ", " ", " ", " ", " ", "6", "2", "5", "0", "0", "K", "b", "i", "t", " ", " ", " ", " ", " ", " ", " ", " ", "1", "G", "b", "i", "t", " ", " ", " ", " ", " ", " ", "2", "5", "0", "M", "b", "i", "t">>,
          \*   pk_delay          5us          2ms          0us
          <<" ", " ", "p", "k", "_", "d", "e", "l", "a", "y", " ", " ", " ", " ", " ", " ", " ", " ", " ", " ", "5", "u", "s", " ", " ", " ", " ", " ", " ", " ", " ", " ", " ", "2", "m", "s", " ", " ", " ", " ", " ", " ", " ", " ", " ", " ", "0", "u", "s">>,
          \*   av_delay          1us        900us          0us
          <<" ", " ", "a", "v", "_", "d", "e", "l", "a", "y", " ", " ", " ", " ", " ", " ", " ", " ", " ", " ", "1", "u", "s", " ", " ", " ", " ", " ", " ", " ", " ", "9", "0", "0", "u", "s", " ", " ", " ", " ", " ", " ", " ", " ", " ", " ", "0", "u", "s">>,
          \*   sp_delay           2s        1.5ms          0us
          <<" ", " ", "s", "p", "_", "d", "e", "l", "a", "y", " ", " ", " ", " ", " ", " ", " ", " ", " ", " ", " ", "2", "s", " ", " ", " ", " ", " ", " ", " ", " ", "1", ".", "5", "m", "s", " ", " ", " ", " ", " ", " ", " ", " ", " ", " ", "0", "u", "s">>,
          \*   backlog            0b        1514b           0b
          <<" ", " ", "b", "a", "c", "k", "l", "o", "g", " ", " ", " ", " ", " ", " ", " ", " ", " ", " ", " ", " ", "0", "b", " ", " ", " ", " ", " ", " ", " ", " ", "1", "5", "1", "4", "b", " ", " ", " ", " ", " ", " ", " ", " ", " ", " ", " ", "0", "b">>,
          \*   pkts                0            2            0
          <<" ", " ", "p", "k", "t", "s", " ", " ", " ", " ", " ", " ", " ", " ", " ", " ", " ", " ", " ", " ", " ", " ", "0", " ", " ", " ", " ", " ", " ", " ", " ", " ", " ", " ", " ", "2", " ", " ", " ", " ", " ", " ", " ", " ", " ", " ", " ", " ", "0">>,
          \*   bytes               0          200            0
          <<" ", " ", "b", "y", "t", "e", "s", " ", " ", " ", " ", " ", " ", " ", " ", " ", " ", " ", " ", " ", " ", " ", "0", " ", " ", " ", " ", " ", " ", " ", " ", " ", " ", "2", "0", "0", " ", " ", " ", " ", " ", " ", " ", " ", " ", " ", " ", " ", "0">>,
          \*   drops               0            1            0
          <<" ", " ", "d", "r", "o", "p", "s", " ", " ", " ", " ", " ", " ", " ", " ", " ", " ", " ", " ", " ", " ", " ", "0", " ", " ", " ", " ", " ", " ", " ", " ", " ", " ", " ", " ", "1", " ", " ", " ", " ", " ", " ", " ", " ", " ", " ", " ", " ", "0">>,
          \*   max_len             0         1514           66
          <<" ", " ", "m", "a", "x", "_", "l", "e", "n", " ", " ", " ", " ", " ", " ", " ", " ", " ", " ", " ", " ", " ", "0", " ", " ", " ", " ", " ", " ", " ", " ", " ", "1", "5", "1", "4", " ", " ", " ", " ", " ", " ", " ", " ", " ", " ", " ", "6", "6">> >>],
      [kind |-> "cake", dev |-> <<"e", "t", "h", "0">>, handle |-> <<"0">>, parent |-> <<"1">>,
       text |-> <<
          \* qdisc cake 0: dev eth0 parent 1:2 bandwidth 1Gbit diffserv3 nat rtt 100ms noatm overhead 18
          <<"q", "d", "i", "s", "c", " ", "c", "a", "k", "e", " ", "0", ":", " ", "d", "e", "v", " ", "e", "t", "h", "0", " ", "p", "a", "r", "e", "n", "t", " ", "1", ":", "2", " ", "b", "a", "n", "d", "w", "i", "d", "t", "h", " ", "1", "G", "b", "i", "t", " ", "d", "i", "f", "f", "s", "e", "r", "v", "3", " ", "n", "a", "t", " ", "r", "t", "t", " ", "1", "0", "0", "m", "s", " ", "n", "o", "a", "t", "m", " ", "o", "v", "e", "r", "h", "e", "a", "d", " ", "1", "8">>,
          \*  Sent 250 bytes 3 pkt (dropped 2, overlimits 1 requeues 0)
          <<" ", "S", "e", "n", "t", " ", "2", "5", "0", " ", "b", "y", "t", "e", "s", " ", "3", " ", "p", "k", "t", " ", "(", "d", "r", "o", "p", "p", "e", "d", " ", "2", ",", " ", "o", "v", "e", "r", "l", "i", "m", "i", "t", "s", " ", "1", " ", "r", "e", "q", "u", "e", "u", "e", "s", " ", "0", ")">>,
          \*  backlog 0b 0p requeues 0
          <<" ", "b", "a", "c", "k", "l", "o", "g", " ", "0", "b", " ", "0", "p", " ", "r", "e", "q", "u", "e", "u", "e", "s", " ", "0">>,
          \*  memory used: 1Kb of 8Mb
          <<" ", "m", "e", "m", "o", "r", "y", " ", "u", "s", "e", "d", ":", " ", "1", "K", "b", " ", "o", "f", " ", "8", "M", "b">>,
          \*                    Bulk  Best Effort        Voice
          <<" ", " ", " ", " ", " ", " ", " ", " ", " ", " ", " ", " ", " ", " ", " ", " ", " ", " ", " ", "B", "u", "l", "k", " ", " ", "B", "e", "s", "t", " ", "E", "f", "f", "o", "r", "t", " ", " ", " ", " ", " ", " ", " ", " ", "V", "o", "i", "c", "e">>,
          \*   thresh        62500Kbit        1Gbit      250Mbit
          <<" ", " ", "t", "h", "r", "e", "s", "h", " ", " ", " ", " ", " ", " ", " ", " ", "6", "2", "5", "0", "0", "K", "b", "i", "t", " ", " ", " ", " ", " ", " ", " ", " ", "1", "G", "b", "i", "t", " ", " ", " ", " ", " ", " ", "2", "5", "0", "M", "b", "i", "t">>,
          \*   pk_delay          1ms        900us          3us
          <<" ", " ", "p", "k", "_", "d", "e", "l", "a", "y", " ", " ", " ", " ", " ", " ", " ", " ", " ", " ", "1", "m", "s", " ", " ", " ", " ", " ", " ", " ", " ", "9", "0", "0", "u", "s", " ", " ", " ", " ", " ", " ", " ", " ", " ", " ", "3", "u", "s">>,
          \*   av_delay        1.5ms         20us          0us
          <<" ", " ", "a", "v", "_", "d", "e", "l", "a", "y", " ", " ", " ", " ", " ", " ", " ", " ", "1", ".", "5", "m", "s", " ", " ", " ", " ", " ", " ", " ", " ", " ", "2", "0", "u", "s", " ", " ", " ", " ", " ", " ", " ", " ", " ", " ", "0", "u", "s">>,
          \*   sp_delay        900ms       1500us         10us
          <<" ", " ", "s", "p", "_", "d", "e", "l", "a", "y", " ", " ", " ", " ", " ", " ", " ", " ", "9", "0", "0", "m", "s", " ", " ", " ", " ", " ", " ", " ", "1", "5", "0", "0", "u", "s", " ", " ", " ", " ", " ", " ", " ", " ", " ", "1", "0", "u", "s">>,
          \*   backlog            0b           0b           0b
          <<" ", " ", "b", "a", "c", "k", "l", "o", "g", " ", " ", " ", " ", " ", " ", " ", " ", " ", " ", " ", " ", "0", "b", " ", " ", " ", " ", " ", " ", " ", " ", " ", " ", " ", "0", "b", " ", " ", " ", " ", " ", " ", " ", " ", " ", " ", " ", "0", "b">>,
          \*   pkts                1            1            1
          <<" ", " ", "p", "k", "t", "s", " ", " ", " ", " ", " ", " ", " ", " ", " ", " ", " ", " ", " ", " ", " ", " ", "1", " ", " ", " ", " ", " ", " ", " ", " ", " ", " ", " ", " ", "1", " ", " ", " ", " ", " ", " ", " ", " ", " ", " ", " ", " ", "1">>,
          \*   bytes              50          100          100
          <<" ", " ", "b", "y", "t", "e", "s", " ", " ", " ", " ", " ", " ", " ", " ", " ", " ", " ", " ", " ", " ", "5", "0", " ", " ", " ", " ", " ", " ", " ", " ", " ", " ", "1", "0", "0", " ", " ", " ", " ", " ", " ", " ", " ", " ", " ", "1", "0", "0">>,
          \*   drops               0            2            0
          <<" ", " ", "d", "r", "o", "p", "s", " ", " ", " ", " ", " ", " ", " ", " ", " ", " ", " ", " ", " ", " ", " ", "0", " ", " ", " ", " ", " ", " ", " ", " ", " ", " ", " ", " ", "2", " ", " ", " ", " ", " ", " ", " ", " ", " ", " ", " ", " ", "0">>,
          \*   max_len            50          590         1514
          <<" ", " ", "m", "a", "x", "_", "l", "e", "n", " ", " ", " ", " ", " ", " ", " ", " ", " ", " ", " ", " ", "5", "0", " ", " ", " ", " ", " ", " ", " ", " ", " ", " ", "5", "9", "0", " ", " ", " ", " ", " ", " ", " ", " ", " ", "1", "5", "1", "4">> >>],
      [kind |-> "cake", dev |-> <<"e", "t", "h", "0">>, handle |-> <<"0">>, parent |-> <<"1">>,
       text |-> <<
          \* qdisc cake 0: dev eth0 parent 1:3 bandwidth 10Mbit besteffort atm overhead 40
          <<"q", "d", "i", "s", "c", " ", "c", "a", "k", "e", " ", "0", ":", " ", "d", "e", "v", " ", "e", "t", "h", "0", " ", "p", "a", "r", "e", "n", "t", " ", "1", ":", "3", " ", "b", "a", "n", "d", "w", "i", "d", "t", "h", " ", "1", "0", "M", "b", "i", "t", " ", "b", "e", "s", "t", "e", "f", "f", "o", "r", "t", " ", "a", "t", "m", " ", "o", "v", "e", "r", "h", "e", "a", "d", " ", "4", "0">>,
          \*  Sent 300 bytes 4 pkt (dropped 0, overlimits 0 requeues 0)
          <<" ", "S", "e", "n", "t", " ", "3", "0", "0", " ", "b", "y", "t", "e", "s", " ", "4", " ", "p", "k", "t", " ", "(", "d", "r", "o", "p", "p", "e", "d", " ", "0", ",", " ", "o", "v", "e", "r", "l", "i", "m", "i", "t", "s", " ", "0", " ", "r", "e", "q", "u", "e", "u", "e", "s", " ", "0", ")">>,
          \*  backlog 3028b 2p requeues 0
          <<" ", "b", "a", "c", "k", "l", "o", "g", " ", "3", "0", "2", "8", "b", " ", "2", "p", " ", "r", "e", "q", "u", "e", "u", "e", "s", " ", "0">>,
          \*  memory used: 512b of 4Mb
          <<" ", "m", "e", "m", "o", "r", "y", " ", "u", "s", "e", "d", ":", " ", "5", "1", "2", "b", " ", "o", "f", " ", "4", "M", "b">>,
          \*                   Tin 0
          <<" ", " ", " ", " ", " ", " ", " ", " ", " ", " ", " ", " ", " ", " ", " ", " ", " ", " ", "T", "i", "n", " ", "0">>,
          \*   thresh          10Mbit
          <<" ", " ", "t", "h", "r", "e", "s", "h", " ", " ", " ", " ", " ", " ", " ", " ", " ", " ", "1", "0", "M", "b", "i", "t">>,
          \*   pk_delay          7us
          <<" ", " ", "p", "k", "_", "d", "e", "l", "a", "y", " ", " ", " ", " ", " ", " ", " ", " ", " ", " ", "7", "u", "s">>,
          \*   av_delay        1.2s
          <<" ", " ", "a", "v", "_", "d", "e", "l", "a", "y", " ", " ", " ", " ", " ", " ", " ", " ", "1", ".", "2", "s">>,
          \*   pkts                4
          <<" ", " ", "p", "k", "t", "s", " ", " ", " ", " ", " ", " ", " ", " ", " ", " ", " ", " ", " ", " ", " ", " ", "4">>,
          \*   bytes             300
          <<" ", " ", "b", "y", "t", "e", "s", " ", " ", " ", " ", " ", " ", " ", " ", " ", " ", " ", " ", " ", "3", "0", "0">>,
          \*   max_len          2000
          <<" ", " ", "m", "a", "x", "_", "l", "e", "n", " ", " ", " ", " ", " ", " ", " ", " ", " ", " ", "2", "0", "0", "0">> >>],
      [kind |-> "cake_mq", dev |-> <<"e", "t", "h", "1">>, handle |-> <<"2">>, parent |-> <<>>,
       text |-> <<
          \* qdisc cake_mq 2: dev eth1 root
          <<"q", "d", "i", "s", "c", " ", "c", "a", "k", "e", "_", "m", "q", " ", "2", ":", " ", "d", "e", "v", " ", "e", "t", "h", "1", " ", "r", "o", "o", "t">> >>],
      [kind |-> "cake", dev |-> <<"e", "t", "h", "1">>, handle |-> <<"0">>, parent |-> <<"2">>,
       text |-> <<
          \* qdisc cake 0: dev eth1 parent 2:1 bandwidth unlimited ingress
          <<"q", "d", "i", "s", "c", " ", "c", "a", "k", "e", " ", "0", ":", " ", "d", "e", "v", " ", "e", "t", "h", "1", " ", "p", "a", "r", "e", "n", "t", " ", "2", ":", "1", " ", "b", "a", "n", "d", "w", "i", "d", "t", "h", " ", "u", "n", "l", "i", "m", "i", "t", "e", "d", " ", "i", "n", "g", "r", "e", "s", "s">>,
          \*  Sent 70 bytes 1 pkt (dropped 0, overlimits 0 requeues 0)
          <<" ", "S", "e", "n", "t", " ", "7", "0", " ", "b", "y", "t", "e", "s", " ", "1", " ", "p", "k", "t", " ", "(", "d", "r", "o", "p", "p", "e", "d", " ", "0", ",", " ", "o", "v", "e", "r", "l", "i", "m", "i", "t", "s", " ", "0", " ", "r", "e", "q", "u", "e", "u", "e", "s", " ", "0", ")">> >>],
      [kind |-> "other", dev |-> <<"e", "t", "h", "2">>, handle |-> <<"1">>, parent |-> <<>>,
       text |-> <<
          \* qdisc mq 1: dev eth2 root
          <<"q", "d", "i", "s", "c", " ", "m", "q", " ", "1", ":", " ", "d", "e", "v", " ", "e", "t", "h", "2", " ", "r", "o", "o", "t">>,
          \*  Sent 90 bytes 2 pkt (dropped 0, overlimits 0 requeues 0)
          <<" ", "S", "e", "n", "t", " ", "9", "0", " ", "b", "y", "t", "e", "s", " ", "2", " ", "p", "k", "t", " ", "(", "d", "r", "o", "p", "p", "e", "d", " ", "0", ",", " ", "o", "v", "e", "r", "l", "i", "m", "i", "t", "s", " ", "0", " ", "r", "e", "q", "u", "e", "u", "e", "s", " ", "0", ")">> >>],
      [kind |-> "cake", dev |-> <<"e", "t", "h", "2">>, handle |-> <<"8", "0", "0", "5">>, parent |-> <<"1">>,
       text |-> <<
          \* qdisc cake 8005: dev eth2 parent 1:1 bandwidth 10Mbit besteffort ptm overhead 30
          <<"q", "d", "i", "s", "c", " ", "c", "a", "k", "e", " ", "8", "0", "0", "5", ":", " ", "d", "e", "v", " ", "e", "t", "h", "2", " ", "p", "a", "r", "e", "n", "t", " ", "1", ":", "1", " ", "b", "a", "n", "d", "w", "i", "d", "t", "h", " ", "1", "0", "M", "b", "i", "t", " ", "b", "e", "s", "t", "e", "f", "f", "o", "r", "t", " ", "p", "t", "m", " ", "o", "v", "e", "r", "h", "e", "a", "d", " ", "3", "0">>,
          \*  Sent 40 bytes 1 pkt (dropped 0, overlimits 0 requeues 0)
          <<" ", "S", "e", "n", "t", " ", "4", "0", " ", "b", "y", "t", "e", "s", " ", "1", " ", "p", "k", "t", " ", "(", "d", "r", "o", "p", "p", "e", "d", " ", "0", ",", " ", "o", "v", "e", "r", "l", "i", "m", "i", "t", "s", " ", "0", " ", "r", "e", "q", "u", "e", "u", "e", "s", " ", "0", ")">>,
          \*                   Tin 0
          <<" ", " ", " ", " ", " ", " ", " ", " ", " ", " ", " ", " ", " ", " ", " ", " ", " ", " ", "T", "i", "n", " ", "0">>,
          \*   thresh          10Mbit
          <<" ", " ", "t", "h", "r", "e", "s", "h", " ", " ", " ", " ", " ", " ", " ", " ", " ", " ", "1", "0", "M", "b", "i", "t">>,
          \*   pk_delay          7us
          <<" ", " ", "p", "k", "_", "d", "e", "l", "a", "y", " ", " ", " ", " ", " ", " ", " ", " ", " ", " ", "7", "u", "s">>,
          \*   pkts                4
          <<" ", " ", "p", "k", "t", "s", " ", " ", " ", " ", " ", " ", " ", " ", " ", " ", " ", " ", " ", " ", " ", " ", "4">>,
          \*   bytes             300
          <<" ", " ", "b", "y", "t", "e", "s", " ", " ", " ", " ", " ", " ", " ", " ", " ", " ", " ", " ", " ", "3", "0", "0">>,
          \*   max_len          2000
          <<" ", " ", "m", "a", "x", "_", "l", "e", "n", " ", " ", " ", " ", " ", " ", " ", " ", " ", " ", "2", "0", "0", "0">> >>],
      [kind |-> "cake", dev |-> <<"e", "t", "h", "3">>, handle |-> <<"8", "0", "0", "7">>, parent |-> <<>>,
       text |-> <<
          \* qdisc cake 8007: dev eth3 root refcnt 2 bandwidth 10Mbit besteffort raw overhead 0 ingress
          <<"q", "d", "i", "s", "c", " ", "c", "a", "k", "e", " ", "8", "0", "0", "7", ":", " ", "d", "e", "v", " ", "e", "t", "h", "3", " ", "r", "o", "o", "t", " ", "r", "e", "f", "c", "n", "t", " ", "2", " ", "b", "a", "n", "d", "w", "i", "d", "t", "h", " ", "1", "0", "M", "b", "i", "t", " ", "b", "e", "s", "t", "e", "f", "f", "o", "r", "t", " ", "r", "a", "w", " ", "o", "v", "e", "r", "h", "e", "a", "d", " ", "0", " ", "i", "n", "g", "r", "e", "s", "s">>,
          \*  Sent 60 bytes 1 pkt (dropped 0, overlimits 2 requeues 0)
          <<" ", "S", "e", "n", "t", " ", "6", "0", " ", "b", "y", "t", "e", "s", " ", "1", " ", "p", "k", "t", " ", "(", "d", "r", "o", "p", "p", "e", "d", " ", "0", ",", " ", "o", "v", "e", "r", "l", "i", "m", "i", "t", "s", " ", "2", " ", "r", "e", "q", "u", "e", "u", "e", "s", " ", "0", ")">>,
          \*  backlog 0b 0p requeues 0
          <<" ", "b", "a", "c", "k", "l", "o", "g", " ", "0", "b", " ", "0", "p", " ", "r", "e", "q", "u", "e", "u", "e", "s", " ", "0">> >>]
    >>

\* parseBlockBody tabulated over the blocks of the catalogue, as they stand
\* within a report and at its end (evaluated once)
ParseTable ==
    [ls \in {Catalogue[k].text : k \in 1..Len(Catalogue)}
            \cup {Catalogue[k].text \o << <<>> >> : k \in 1..Len(Catalogue)} |-> parseBlockBody(ls)]

\* returns [cs, ok]; now is the reading of time.Now()
parseCakeBlock(lines, now) ==
    IF Len(lines) = 0 THEN [cs |-> ZeroStats, ok |-> FALSE]
    ELSE [cs |-> [(IF lines \in DOMAIN ParseTable THEN ParseTable[lines] ELSE parseBlockBody(lines))
                      EXCEPT !.UpdatedAt = now],
          ok |-> TRUE]

\* from fs[i] on (1-based)
RECURSIVE parentHandleFrom(_, _)
parentHandleFrom(fs, i) ==
    IF i > Len(fs) - 1 THEN <<>>
    ELSE IF fs[i] = <<"p", "a", "r", "e", "n", "t">> /\ Index(fs[i + 1], <<":">>) > 0
         THEN SubSeq(fs[i + 1], 1, Index(fs[i + 1], <<":">>))
    ELSE parentHandleFrom(fs, i + 1)

\* a parent handle that keeps the minor number
headerParentHandleWhole(line) ==
    LET fs == Fields(line)
        at == {i \in 1..(Len(fs) - 1) : fs[i] = <<"p", "a", "r", "e", "n", "t">>}
    IN IF at = {} THEN <<>> ELSE fs[(CHOOSE i \in at : \A j \in at : i <= j) + 1]

headerParentHandle(line) == parentHandleFrom(Fields(line), 1)

-----------------------------------------------------------------------------
(* pkg/parser: multi-queue aggregation *)

parseBytesStr(str) ==
    LET s == TrimSpace(str)
        num(t) == ParseUint(t).v
    IN IF HasSuffix(s, <<"G", "b">>) THEN num(TrimSuffix(s, <<"G", "b">>)) * 1024 * 1024 * 1024
       ELSE IF HasSuffix(s, <<"M", "b">>) THEN num(TrimSuffix(s, <<"M", "b">>)) * 1024 * 1024
       ELSE IF HasSuffix(s, <<"K", "b">>) THEN num(TrimSuffix(s, <<"K", "b">>)) * 1024
       ELSE num(TrimSuffix(s, <<"b">>))

cakeParseDelayUsec(str) ==
    LET s == TrimSpace(str)
        hits == {i \in 1..Len(DelaySuffixes) : HasSuffix(s, DelaySuffixes[i])}
    IN IF s = <<>> \/ s = <<"0">> THEN FZero
       ELSE IF hits = {} THEN FZero
       ELSE LET k == CHOOSE i \in hits : \A j \in hits : i <= j
                unit == DelaySuffixes[k]
                p == ParseFloat(TrimSuffix(s, unit))
            IN IF ~p.ok THEN FZero
               ELSE IF unit = <<"u", "s">> THEN p.v
               ELSE IF unit = <<"m", "s">> THEN FMulInt(p.v, 1000)
               ELSE FMulInt(p.v, 1000000)

\* maxDelayStr, lines 1126-1135: the loop from queues[qi], with best and bestStr
RECURSIVE maxDelayStrFrom(_, _, _, _, _, _)
maxDelayStrFrom(queues, ti, field, qi, best, bestStr) ==
    IF qi > Len(queues) THEN bestStr
    ELSE IF ti > Len(queues[qi]) THEN maxDelayStrFrom(queues, ti, field, qi + 1, best, bestStr)
    ELSE LET s == queues[qi][ti][field]
             v == cakeParseDelayUsec(s)
         IN IF FGt(v, best) \/ bestStr = <<>>
            THEN maxDelayStrFrom(queues, ti, field, qi + 1, v, s)
            ELSE maxDelayStrFrom(queues, ti, field, qi + 1, best, bestStr)

\* a maximum that keeps the string of the first queue
maxDelayStrFirstQueue(queues, ti, field) == queues[1][ti][field]

maxDelayStr(queues, ti, field) == maxDelayStrFrom(queues, ti, field, 1, FZero, <<>>)

\* aggregateCakeTiers, lines 1085-1104: out[ti].field += t.field over the
\* queues that have a tier at ti, from queues[qi]
RECURSIVE tierSum(_, _, _, _)
tierSum(queues, ti, field, qi) ==
    IF qi > Len(queues) THEN 0
    ELSE (IF ti > Len(queues[qi]) THEN 0 ELSE queues[qi][ti][field])
         + tierSum(queues, ti, field, qi + 1)

\* aggregateCakeTiers, lines 1101-1103
RECURSIVE tierMaxLen(_, _, _, _)
tierMaxLen(queues, ti, qi, best) ==
    IF qi > Len(queues) THEN best
    ELSE IF ti <= Len(queues[qi]) /\ queues[qi][ti].MaxLen > best
         THEN tierMaxLen(queues, ti, qi + 1, queues[qi][ti].MaxLen)
    ELSE tierMaxLen(queues, ti, qi + 1, best)

\* aggregateCakeTiers, lines 1110-1115
RECURSIVE tierBacklogSum(_, _, _)
tierBacklogSum(queues, ti, qi) ==
    IF qi > Len(queues) THEN 0
    ELSE (IF ti > Len(queues[qi]) THEN 0 ELSE parseBytesStr(queues[qi][ti].Backlog))
         + tierBacklogSum(queues, ti, qi + 1)

\* a tier aggregate that returns the first queue's tiers as they are
aggregateCakeTiersFirstQueue(queues) ==
    IF Len(queues) = 0 THEN <<>> ELSE queues[1]

aggregateCakeTiers(queues) ==
    IF Len(queues) = 0 \/ Len(queues[1]) = 0 THEN <<>>
    ELSE [ti \in 1..Len(queues[1]) |->
             [queues[1][ti] EXCEPT
                 !.Pkts = tierSum(queues, ti, "Pkts", 1),
                 !.Bytes = tierSum(queues, ti, "Bytes", 1),
                 !.WayInds = tierSum(queues, ti, "WayInds", 1),
                 !.WayMiss = tierSum(queues, ti, "WayMiss", 1),
                 !.WayCols = tierSum(queues, ti, "WayCols", 1),
                 !.Drops = tierSum(queues, ti, "Drops", 1),
                 !.Marks = tierSum(queues, ti, "Marks", 1),
                 !.AckDrop = tierSum(queues, ti, "AckDrop", 1),
                 !.SpFlows = tierSum(queues, ti, "SpFlows", 1),
                 !.BkFlows = tierSum(queues, ti, "BkFlows", 1),
                 !.UnFlows = tierSum(queues, ti, "UnFlows", 1),
                 !.MaxLen = tierMaxLen(queues, ti, 1, 0),
                 !.PkDelay = maxDelayStr(queues, ti, "PkDelay"),
                 !.AvDelay = maxDelayStr(queues, ti, "AvDelay"),
                 !.SpDelay = maxDelayStr(queues, ti, "SpDelay"),
                 !.Backlog = FormatUint(tierBacklogSum(queues, ti, 1)) \o <<"b">>]]

\* aggregateCakeMQSubQueues, lines 1010-1019: agg.field += s.field, from subs[i]
RECURSIVE subSum(_, _, _)
subSum(subs, field, i) ==
    IF i > Len(subs) THEN 0 ELSE subs[i][field] + subSum(subs, field, i + 1)

\* aggregateCakeMQSubQueues, lines 1017-1018
RECURSIVE subBytesSum(_, _, _)
subBytesSum(subs, field, i) ==
    IF i > Len(subs) THEN 0 ELSE parseBytesStr(subs[i][field]) + subBytesSum(subs, field, i + 1)

\* an aggregate that keeps the first sub-queue's global counters
aggregateFirstOnly(parent, subs) ==
    IF Len(subs) = 0 THEN parent
    ELSE [subs[1] EXCEPT
             !.Handle = parent.Handle,
             !.Interface = parent.Interface,
             !.RawHeader = parent.RawHeader,
             !.UpdatedAt = parent.UpdatedAt,
             !.Tiers = IF Len(subs[1].Tiers) > 0
                       THEN aggregateCakeTiers([i \in 1..Len(subs) |-> subs[i].Tiers])
                       ELSE subs[1].Tiers]

aggregateCakeMQSubQueues(parent, subs) ==
    IF Len(subs) = 0 THEN parent
    ELSE [subs[1] EXCEPT
             !.Handle = parent.Handle,
             !.Interface = parent.Interface,
             !.RawHeader = parent.RawHeader,
             !.UpdatedAt = parent.UpdatedAt,
             !.SentBytes = subSum(subs, "SentBytes", 1),
             !.SentPkts = subSum(subs, "SentPkts", 1),
             !.Dropped = subSum(subs, "Dropped", 1),
             !.Overlimits = subSum(subs, "Overlimits", 1),
             !.Requeues = subSum(subs, "Requeues", 1),
             !.BacklogPkts = subSum(subs, "BacklogPkts", 1),
             !.BacklogBytes = FormatUint(subBytesSum(subs, "BacklogBytes", 1)) \o <<"b">>,
             !.MemoryUsed = FormatUint(subBytesSum(subs, "MemoryUsed", 1)) \o <<"b">>,
             !.Tiers = IF Len(subs[1].Tiers) > 0
                       THEN aggregateCakeTiers([i \in 1..Len(subs) |-> subs[i].Tiers])
                       ELSE subs[1].Tiers]

-----------------------------------------------------------------------------
(* pkg/parser: parseText *)

\* parseText, lines 599-609: what the loop over the lines leaves in blocks.
\* Every line is appended to cur, so cur is empty only before the first line:
\* a block begins at line 1 and at every later line that starts with
\* "qdisc ", and runs up to the next beginning.
splitBlocks(lines) ==
    LET starts == {1} \cup {i \in 2..Len(lines) : HasPrefix(lines[i], <<"q", "d", "i", "s", "c", " ">>)}
        n == Cardinality(starts)
        nth(k) == CHOOSE i \in starts : Cardinality({j \in starts : j < i}) = k - 1
    IN IF Len(lines) = 0 THEN <<>>
       ELSE [k \in 1..n |-> SubSeq(lines, nth(k), IF k = n THEN Len(lines) ELSE nth(k + 1) - 1)]

\* a parse loop that takes the blocks of every discipline for CAKE blocks
RECURSIVE parseBlocksAnyDiscipline(_, _)
parseBlocksAnyDiscipline(blocks, k) ==
    IF k > Len(blocks) THEN <<>>
    ELSE << [cs |-> parseCakeBlock(blocks[k], k).cs,
             parentHandle |-> headerParentHandle(blocks[k][1]),
             isCakeMQ |-> FALSE] >> \o parseBlocksAnyDiscipline(blocks, k + 1)

\* parseText, lines 619-639: the blockResults of blocks[k..]; the k-th block
\* is parsed at clock reading k
RECURSIVE parseBlocks(_, _)
parseBlocks(blocks, k) ==
    IF k > Len(blocks) THEN <<>>
    ELSE LET header == blocks[k][1]
             p == parseCakeBlock(blocks[k], k)
             here == IF Contains(header, <<"q", "d", "i", "s", "c", " ", "c", "a", "k", "e", "_", "m", "q", " ">>)
                     THEN << [cs |-> p.cs, parentHandle |-> <<>>, isCakeMQ |-> TRUE] >>
                     ELSE IF Contains(header, <<"q", "d", "i", "s", "c", " ", "c", "a", "k", "e", " ">>)
                     THEN << [cs |-> p.cs, parentHandle |-> headerParentHandle(header),
                              isCakeMQ |-> FALSE] >>
                     ELSE <<>>
         IN here \o parseBlocks(blocks, k + 1)

\* parseText, lines 643-648: the keys of mqParents
mqParentKeys(parsed) ==
    {<<parsed[i].cs.Interface, parsed[i].cs.Handle>> : i \in {j \in 1..Len(parsed) : parsed[j].isCakeMQ}}

\* parseText, lines 651-659: subQueues[key], from parsed[i]
RECURSIVE subQueuesOf(_, _, _)
subQueuesOf(parsed, key, i) ==
    IF i > Len(parsed) THEN <<>>
    ELSE LET r == parsed[i]
         IN (IF ~r.isCakeMQ /\ r.parentHandle # <<>>
                /\ <<r.cs.Interface, r.parentHandle>> = key
                /\ key \in mqParentKeys(parsed)
             THEN <<r.cs>> ELSE <<>>) \o subQueuesOf(parsed, key, i + 1)

\* an emit loop that also emits the sub-queues it has aggregated
RECURSIVE emitChildrenToo(_, _, _)
emitChildrenToo(parsed, i, emittedMQ) ==
    IF i > Len(parsed) THEN <<>>
    ELSE LET r == parsed[i]
             key == <<r.cs.Interface, r.cs.Handle>>
         IN IF r.isCakeMQ
            THEN IF key \in emittedMQ THEN emitChildrenToo(parsed, i + 1, emittedMQ)
                 ELSE <<aggregateCakeMQSubQueues(r.cs, subQueuesOf(parsed, key, 1))>>
                      \o emitChildrenToo(parsed, i + 1, emittedMQ \cup {key})
            ELSE <<r.cs>> \o emitChildrenToo(parsed, i + 1, emittedMQ)

\* an emit loop that leaves out every block that has a parent reference
RECURSIVE emitNoOrphans(_, _, _)
emitNoOrphans(parsed, i, emittedMQ) ==
    IF i > Len(parsed) THEN <<>>
    ELSE LET r == parsed[i]
             key == <<r.cs.Interface, r.cs.Handle>>
             subs == subQueuesOf(parsed, key, 1)
         IN IF r.isCakeMQ
            THEN IF key \in emittedMQ THEN emitNoOrphans(parsed, i + 1, emittedMQ)
                 ELSE <<IF Len(subs) > 0 THEN aggregateCakeMQSubQueues(r.cs, subs) ELSE r.cs>>
                      \o emitNoOrphans(parsed, i + 1, emittedMQ \cup {key})
            ELSE IF r.parentHandle # <<>> THEN emitNoOrphans(parsed, i + 1, emittedMQ)
            ELSE <<r.cs>> \o emitNoOrphans(parsed, i + 1, emittedMQ)

\* parseText, lines 662-689: the result of parsed[i..], with emittedMQ
RECURSIVE emit(_, _, _)
emit(parsed, i, emittedMQ) ==
    IF i > Len(parsed) THEN <<>>
    ELSE LET r == parsed[i]
             key == <<r.cs.Interface, r.cs.Handle>>
             subs == subQueuesOf(parsed, key, 1)
         IN IF r.isCakeMQ
            THEN IF key \in emittedMQ THEN emit(parsed, i + 1, emittedMQ)
                 ELSE <<IF Len(subs) > 0 THEN aggregateCakeMQSubQueues(r.cs, subs) ELSE r.cs>>
                      \o emit(parsed, i + 1, emittedMQ \cup {key})
            ELSE IF r.parentHandle # <<>>
                    /\ <<r.cs.Interface, r.parentHandle>> \in mqParentKeys(parsed)
                 THEN emit(parsed, i + 1, emittedMQ)
            ELSE <<r.cs>> \o emit(parsed, i + 1, emittedMQ)

parseText(rawText) ==
    LET blocks == splitBlocks(Split(rawText, "\n"))
    IN emit(parseBlocks(blocks, 1), 1, {})

-----------------------------------------------------------------------------
(* The parser applied to one report *)

\* the text of one block: every line ends with a newline
RECURSIVE JoinLines(_)
JoinLines(ls) ==
    IF Len(ls) = 0 THEN <<>> ELSE ls[1] \o <<"\n">> \o JoinLines(Tail(ls))

\* the report made of the catalogue's blocks rep[1], rep[2], ...
RECURSIVE ReportText(_)
ReportText(rep) ==
    IF Len(rep) = 0 THEN <<>> ELSE JoinLines(Catalogue[rep[1]].text) \o ReportText(Tail(rep))

\* up to MaxBlocks different blocks of the catalogue, in any order
Reports ==
    UNION {{rep \in [1..n -> 1..Len(Catalogue)] : \A i, j \in 1..n : i # j => rep[i] # rep[j]}
           : n \in 0..MaxBlocks}

PInit ==
    /\ capacity = NewHistoryStore(0)
    /\ pollInterval = 1
    /\ HistoryEmpty
    /\ ConcIdle
    /\ report \in Reports
    /\ tcOut = ReportText(report)
    /\ result = <<>>
    /\ pdone = FALSE
    /\ TierIdle
    /\ ServerIdle

\* CollectStats hands the report to parseText
ParseText ==
    /\ ~pdone
    /\ result' = parseText(tcOut)
    /\ pdone' = TRUE
    /\ UNCHANGED <<report, tcOut>>
    /\ UNCHANGED hvars
    /\ UNCHANGED cvars
    /\ UNCHANGED tvars
    /\ UNCHANGED svars

NextParse == ParseText

SpecParse == PInit /\ [][NextParse]_vars

-----------------------------------------------------------------------------
(* parseTierNames on the tokens of a tier-name header line *)

\* the tokens a header line is made of here: the two halves of "Best Effort",
\* "Tin", two tin numbers and an ordinary tier name
TierTokens ==
    {<<"B", "e", "s", "t">>, <<"E", "f", "f", "o", "r", "t">>, <<"T", "i", "n">>, <<"0">>, <<"1", "2">>, <<"B", "u", "l", "k">>}

\* the header lines of up to MaxWords tokens
RECURSIVE TokenLines(_)
TokenLines(n) ==
    IF n = 0 THEN {<<>>}
    ELSE TokenLines(n - 1) \cup {<<t>> \o l : t \in TierTokens, l \in {m \in TokenLines(n - 1) : Len(m) = n - 1}}

TInit ==
    /\ capacity = NewHistoryStore(0)
    /\ pollInterval = 1
    /\ HistoryEmpty
    /\ ConcIdle
    /\ ParserIdle
    /\ hdrWords \in TokenLines(MaxWords)
    /\ tnames = <<>>
    /\ tdone = FALSE
    /\ ServerIdle

\* parseCakeBlock, line 730: tierNames = parseTierNames(fields)
ParseTierNames ==
    /\ ~tdone
    /\ tnames' = parseTierNames(hdrWords)
    /\ tdone' = TRUE
    /\ UNCHANGED hdrWords
    /\ UNCHANGED hvars
    /\ UNCHANGED cvars
    /\ UNCHANGED pvars
    /\ UNCHANGED svars

NextTier == ParseTierNames

SpecTier == TInit /\ [][NextTier]_vars

-----------------------------------------------------------------------------
(* server: Run, forcePoll and runPoller.  Run polls once, then starts the     *)
(* poller goroutine, which polls on every tick until the context is done.   *)
(* Record runs under HistoryStore.mu with the poller as the only writer and *)
(* is one step here.                                                        *)

\* what CollectStats may return without an error
ServerInputs ==
    {<<CakeStatsIn(eth0, 1, 0, <<>>)>>, <<CakeStatsIn(eth0, 2, 1, <<>>)>>}

\* sseBufSize
sseBufSize == 4

\* the connections that may call handleSSE
SSEClients == {"c1", "c2"}

\* time.Now() in Record: readings carry the monotonic clock, which does not
\* go back; a poll may take the same reading as the one before
ServerTimes == {t \in 0..MaxClock : t >= lastNow}

\* a plain send ch <- event: the sender waits while the channel is full
sendBlocking(q, ev) ==
    IF Len(q) < sseBufSize THEN [queue |-> Append(q, ev), blocked |-> FALSE]
    ELSE [queue |-> q, blocked |-> TRUE]

\* broadcast, lines 108-111: select { case ch <- event: default: } on a
\* channel holding q; the sender goes on in either case
trySend(q, ev) ==
    IF Len(q) < sseBufSize THEN [queue |-> Append(q, ev), blocked |-> FALSE]
    ELSE [queue |-> q, blocked |-> FALSE]

\* broadcast: the non-blocking send of event ev to every registered client;
\* a client whose channel is full does not get it
broadcast(cl, ev) == [c \in DOMAIN cl |-> trySend(cl[c], ev).queue]

\* the registry when Run is called: no client, or one with an empty channel
InitialClients == {<<>>, [c \in {"c1"} |-> <<>>]}

\* Run has been called and is about to poll
SInit ==
    /\ capacity = NewHistoryStore(0)
    /\ pollInterval = 1
    /\ HistoryEmpty
    /\ ConcIdle
    /\ ParserIdle
    /\ TierIdle
    /\ ctxDone = FALSE
    /\ tickC = 0
    /\ spc = "collect"
    /\ loop = FALSE
    /\ polled = <<>>
    /\ polls = 0
    /\ sstats = <<>>
    /\ clients \in InitialClients
    /\ bcasts = 0
    /\ missed = 0
    /\ bleft = {}

\* the owner of the context cancels it
Cancel ==
    /\ ~ctxDone
    /\ ctxDone' = TRUE
    /\ UNCHANGED <<tickC, spc, loop, polled, polls, sstats, clients, bcasts, missed, bleft>>
    /\ UNCHANGED <<hvars, cvars, pvars, tvars>>

\* the ticker made by runPoller sends a tick; a tick that finds the channel
\* full is dropped
Tick ==
    /\ loop
    /\ spc # "returned"
    /\ tickC = 0
    /\ tickC' = 1
    /\ UNCHANGED <<ctxDone, spc, loop, polled, polls, sstats, clients, bcasts, missed, bleft>>
    /\ UNCHANGED <<hvars, cvars, pvars, tvars>>

\* forcePoll: CollectStats(context.Background()) returns; on an error
\* forcePoll returns, and Run goes on to start runPoller
PollCollect ==
    /\ spc = "collect"
    /\ \/ /\ \E in \in ServerInputs : polled' = in
          /\ spc' = "record"
          /\ loop' = loop
          /\ missed' = missed
       \/ /\ polled' = <<>>
          /\ spc' = "select"
          /\ loop' = TRUE
          /\ missed' = missed + 1
    /\ UNCHANGED <<ctxDone, tickC, polls, sstats, clients, bcasts, bleft>>
    /\ UNCHANGED <<hvars, cvars, pvars, tvars>>

\* forcePoll: s.history.Record(stats, s.pollInterval)
PollRecord ==
    /\ spc = "record"
    /\ \E now \in ServerTimes : RecordWith(polled, now)
    /\ spc' = "publish"
    /\ UNCHANGED <<ctxDone, tickC, loop, polled, polls, sstats, clients, bcasts, missed, bleft>>

\* forcePoll: s.stats = stats under statsMu, s.broadcast(stats) and the
\* return; after Run's own poll, go s.runPoller(ctx) makes the ticker
PollPublish ==
    /\ spc = "publish"
    /\ sstats' = stats
    /\ clients' = broadcast(clients, bcasts + 1)
    /\ bcasts' = bcasts + 1
    /\ missed' = 0
    /\ spc' = "select"
    /\ loop' = TRUE
    /\ UNCHANGED <<ctxDone, tickC, polled, polls, bleft>>
    /\ UNCHANGED <<hvars, cvars, pvars, tvars>>

\* runPoller: the select takes case <-ticker.C and calls forcePoll.  With
\* ctx.Done() ready as well, select takes either case.
SelectTick ==
    /\ spc = "select"
    /\ tickC = 1
    /\ polls < MaxPolls
    /\ tickC' = 0
    /\ spc' = "collect"
    /\ polls' = polls + 1
    /\ UNCHANGED <<ctxDone, loop, polled, sstats, clients, bcasts, missed, bleft>>
    /\ UNCHANGED <<hvars, cvars, pvars, tvars>>

\* runPoller: the select takes case <-ctx.Done(); runPoller returns and the
\* deferred ticker.Stop() runs
SelectDone ==
    /\ spc = "select"
    /\ ctxDone
    /\ spc' = "returned"
    /\ UNCHANGED <<ctxDone, tickC, loop, polled, polls, sstats, clients, bcasts, missed, bleft>>
    /\ UNCHANGED <<hvars, cvars, pvars, tvars>>

NextServer ==
    \/ Cancel
    \/ Tick
    \/ PollCollect
    \/ PollRecord
    \/ PollPublish
    \/ SelectTick
    \/ SelectDone

SpecServer == SInit /\ [][NextServer]_vars

\* A poll under way goes on: CollectStats, Record and the assignment return.
\* A select that is entered again and again with ctx.Done() ready takes that
\* case at some point: select chooses among its ready cases at random.
SpecServerFair ==
    /\ SpecServer
    /\ WF_vars(PollCollect)
    /\ WF_vars(PollRecord)
    /\ WF_vars(PollPublish)
    /\ SF_vars(SelectDone)

-----------------------------------------------------------------------------
(* The SSE clients.  handleSSE registers a channel of sseBufSize events,     *)
(* streams what arrives on it and unregisters when a write fails; broadcast  *)
(* walks the registry under ssesMu.  The collection and recording between   *)
(* two broadcasts are left out: the poller is at its broadcast call again   *)
(* and again.                                                               *)

\* ssesMu is held by broadcast from its Lock to its return
SSEMuFree == spc = "publish"

SSEInit ==
    /\ capacity = NewHistoryStore(0)
    /\ pollInterval = 1
    /\ HistoryEmpty
    /\ ConcIdle
    /\ ParserIdle
    /\ TierIdle
    /\ ctxDone = FALSE
    /\ tickC = 0
    /\ spc = "publish"
    /\ loop = TRUE
    /\ polled = <<>>
    /\ polls = 0
    /\ sstats = <<>>
    /\ clients = <<>>
    /\ bcasts = 0
    /\ missed = 0
    /\ bleft = {}

\* handleSSE, lines 159-163: a new channel is registered
SSEConnect(c) ==
    /\ SSEMuFree
    /\ c \notin DOMAIN clients
    /\ clients' = Put(clients, c, <<>>)
    /\ UNCHANGED <<ctxDone, tickC, spc, loop, polled, polls, sstats, bcasts, missed, bleft>>
    /\ UNCHANGED <<hvars, cvars, pvars, tvars>>

\* handleSSE, lines 191-198: for event := range ch takes the oldest event
\* and writes it to the connection
SSERead(c) ==
    /\ c \in DOMAIN clients
    /\ clients[c] # <<>>
    /\ clients' = [clients EXCEPT ![c] = Tail(clients[c])]
    /\ UNCHANGED <<ctxDone, tickC, spc, loop, polled, polls, sstats, bcasts, missed, bleft>>
    /\ UNCHANGED <<hvars, cvars, pvars, tvars>>

\* handleSSE, lines 171-175: a write failed, the stream writer returns and
\* its deferred function unregisters the channel
SSEClose(c) ==
    /\ SSEMuFree
    /\ c \in DOMAIN clients
    /\ clients' = Restrict(clients, (DOMAIN clients) \ {c})
    /\ UNCHANGED <<ctxDone, tickC, spc, loop, polled, polls, sstats, bcasts, missed, bleft>>
    /\ UNCHANGED <<hvars, cvars, pvars, tvars>>

\* broadcast, lines 102-107: the event is built, ssesMu is taken and the
\* range loop begins
BroadcastBegin ==
    /\ spc = "publish"
    /\ bcasts < MaxBroadcasts
    /\ bcasts' = bcasts + 1
    /\ bleft' = DOMAIN clients
    /\ spc' = "bcast"
    /\ UNCHANGED <<ctxDone, tickC, loop, polled, polls, sstats, clients, missed>>
    /\ UNCHANGED <<hvars, cvars, pvars, tvars>>

\* broadcast, lines 107-112: one iteration of the range loop; a sender that
\* has to wait stays at this client
BroadcastSend(c) ==
    /\ spc \in {"bcast", "blocked"}
    /\ c \in bleft
    /\ LET o == trySend(clients[c], bcasts)
       IN IF o.blocked
          THEN /\ spc' = "blocked"
               /\ UNCHANGED <<clients, bleft>>
          ELSE /\ spc' = "bcast"
               /\ clients' = [clients EXCEPT ![c] = o.queue]
               /\ bleft' = bleft \ {c}
    /\ UNCHANGED <<ctxDone, tickC, loop, polled, polls, sstats, bcasts, missed>>
    /\ UNCHANGED <<hvars, cvars, pvars, tvars>>

\* broadcast, lines 106 and 114: the loop is over, the deferred Unlock runs
BroadcastEnd ==
    /\ spc = "bcast"
    /\ bleft = {}
    /\ spc' = "publish"
    /\ UNCHANGED <<ctxDone, tickC, loop, polled, polls, sstats, clients, bcasts, missed, bleft>>
    /\ UNCHANGED <<hvars, cvars, pvars, tvars>>

NextSSE ==
    \/ \E c \in SSEClients : SSEConnect(c)
    \/ \E c \in SSEClients : SSERead(c)
    \/ \E c \in SSEClients : SSEClose(c)
    \/ BroadcastBegin
    \/ \E c \in SSEClients : BroadcastSend(c)
    \/ BroadcastEnd

SpecSSE == SSEInit /\ [][NextSSE]_vars

-----------------------------------------------------------------------------
(* Claims about the history engine *)

DerivedZero(cs) ==
    /\ cs.TxBytesPerS = FZero
    /\ cs.DropsPerS = FZero
    /\ cs.MaxAvDelayMs = FZero
    /\ cs.MaxPkDelayMs = FZero

Min(a, b) == IF a <= b THEN a ELSE b

\* C1: the first Record call that observes a name only seeds its state: no
\* sample is pushed for it, Snapshot has no entry for it and the derived
\* fields of its snapshots stay zero.
C1_FirstCallOnlySeeds ==
    \A n \in fresh :
        /\ n \notin DOMAIN Snapshot(ifaces, capacity)
        /\ npushed[n] = 0
        /\ \A i \in 1..Len(stats) : stats[i].Interface = n => DerivedZero(stats[i])

\* C2: on a second or later observation, a sent-bytes counter lower than at
\* the previous observation gives a transmit rate of exactly 0, written back
\* and pushed, and a lower drop counter gives a drop rate of exactly 0,
\* whatever the per-tier byte counters are.
C2_LowerCounterZeroRate ==
    \A i \in 1..Len(stats) :
        ~prior[i].first =>
            /\ stats[i].SentBytes < prior[i].SentBytes =>
                   stats[i].TxBytesPerS = FZero /\ prior[i].sample.Tx = FZero
            /\ stats[i].Dropped < prior[i].Dropped =>
                   stats[i].DropsPerS = FZero /\ prior[i].sample.Dr = FZero

\* C3: every transmit rate and drop rate written into a snapshot or stored in
\* a HistorySample is greater than or equal to zero, for any interval and
\* any clock readings.
C3_RatesNeverNegative ==
    /\ \A i \in 1..Len(stats) :
           FGe(stats[i].TxBytesPerS, FZero) /\ FGe(stats[i].DropsPerS, FZero)
    /\ \A n \in DOMAIN ifaces :
           LET smps == ordered(ifaces[n], capacity)
           IN \A k \in 1..Len(smps) : FGe(smps[k].Tx, FZero) /\ FGe(smps[k].Dr, FZero)

\* C4: after n samples were pushed for an interface into a store of capacity
\* C, Snapshot returns exactly min(n, C) samples for it, the most recently
\* pushed ones, oldest first, before the buffer is full and after it wrapped.
C4_SnapshotIsLastPushed ==
    \A n \in DOMAIN ifaces :
        LET k == Min(npushed[n], capacity)
            snap == Snapshot(ifaces, capacity)
        IN /\ Len(pushed[n]) = k
           /\ (n \in DOMAIN snap) <=> (k > 0)
           /\ k > 0 => snap[n] = pushed[n]

\* the buffer of eth0 wrapped at least twice and holds distinguishable samples
C4_Witness ==
    /\ eth0 \in DOMAIN ifaces
    /\ npushed[eth0] > 2 * capacity
    /\ Snapshot(ifaces, capacity)[eth0][1] # Snapshot(ifaces, capacity)[eth0][capacity]

\* C6: an interface with state that is absent from the list of a Record call
\* is removed by that call and Snapshot has no entry for it afterwards; the
\* interfaces that were present keep their samples (followed by the new ones,
\* the oldest giving way once the buffer is full).
C6_AbsentIsPruned ==
    [][\A n \in DOMAIN ifaces :
          IF n \notin ActiveNames(stats')
          THEN n \notin DOMAIN ifaces' /\ n \notin DOMAIN Snapshot(ifaces', capacity)
          ELSE /\ n \in DOMAIN ifaces'
               /\ LET old == ordered(ifaces[n], capacity)
                      new == ordered(ifaces'[n], capacity)
                      a == npushed'[n] - npushed[n]
                  IN /\ Len(new) = Min(Len(old) + a, capacity)
                     /\ a <= Len(new)
                     /\ SubSeq(new, 1, Len(new) - a) = LastN(old, Len(new) - a)]_vars

\* eth1 was pruned by the last call while eth0, which had samples before the
\* call, was observed again
C6_Witness ==
    /\ eth1 \in pruned
    /\ eth0 \in DOMAIN ifaces
    /\ npushed[eth0] >= 2
    /\ eth0 \in DOMAIN Snapshot(ifaces, capacity)

\* C5: under any interleaving of the poller's Record calls with concurrent
\* Snapshot calls, the result of each Snapshot call equals the history as
\* it stood between two Record calls: never a Record that has processed only
\* some interfaces, written a sample without finishing the push, or pruned
\* only some absent interfaces.
C5_SnapshotSeesWholeRecords ==
    \A r \in Readers :
        (rpc[r] = "done" \/ (rpc[r] = "copy" /\ rleft[r] = {})) =>
            \E c \in rseen[r] : rout[r] = Snapshot(c, capacity)

\* a Snapshot call has copied a non-empty history and still holds the read
\* lock while the next Record call waits for the lock
C5_Witness ==
    \E r \in Readers :
        /\ rpc[r] = "copy"
        /\ rleft[r] = {}
        /\ rout[r] # <<>>
        /\ wpc = "lock"
        /\ calls >= 1

-----------------------------------------------------------------------------
(* Claims about the parser.  What a block of the report is comes from the  *)
(* catalogue's kind, dev, handle and parent, not from the parser.          *)

\* the catalogue block at position k of the report
Blk(k) == Catalogue[report[k]]

\* block k is a CAKE block whose parent reference names the cake_mq block j
\* of the same interface
ChildOf(k, j) ==
    /\ Blk(k).kind = "cake"
    /\ Blk(j).kind = "cake_mq"
    /\ Blk(k).parent # <<>>
    /\ Blk(k).parent = Blk(j).handle
    /\ Blk(k).dev = Blk(j).dev

\* block k gives a snapshot: the first cake_mq block of its interface and
\* handle, or a CAKE block that is no child of a cake_mq block of the report
Emits(k) ==
    \/ /\ Blk(k).kind = "cake_mq"
       /\ \A j \in 1..(k - 1) :
              ~(Blk(j).kind = "cake_mq" /\ Blk(j).dev = Blk(k).dev /\ Blk(j).handle = Blk(k).handle)
    \/ /\ Blk(k).kind = "cake"
       /\ \A j \in 1..Len(report) : ~ChildOf(k, j)

\* the position in the result of the snapshot block k gives
EmitPos(k) == Cardinality({j \in 1..k : Emits(j)})

\* the positions of the children of the cake_mq block j, in block order, from k
RECURSIVE ChildrenFrom(_, _)
ChildrenFrom(j, k) ==
    IF k > Len(report) THEN <<>>
    ELSE (IF ChildOf(k, j) THEN <<k>> ELSE <<>>) \o ChildrenFrom(j, k + 1)

\* the cake_mq blocks that give a snapshot and have children
Groups == {j \in 1..Len(report) : Blk(j).kind = "cake_mq" /\ Emits(j) /\ ChildrenFrom(j, 1) # <<>>}

\* the snapshot of block k parsed as a block of its own
Alone(k) == parseCakeBlock(Blk(k).text, k).cs

RECURSIVE SeqSum(_)
SeqSum(s) == IF Len(s) = 0 THEN 0 ELSE s[1] + SeqSum(Tail(s))

\* how many snapshots of the result carry the interface name d
Named(d) == Cardinality({i \in 1..Len(result) : result[i].Interface = d})

Devs == {Catalogue[k].dev : k \in 1..Len(Catalogue)}

\* C7 as stated: for any report, parseText returns exactly one snapshot per
\* interface that has CAKE blocks; blocks of one interface are never emitted
\* as separate snapshots carrying the same interface name.
C7_OneSnapshotPerInterface ==
    pdone =>
        \A d \in Devs :
            Named(d) = IF \E k \in 1..Len(report) : Blk(k).kind \in {"cake", "cake_mq"} /\ Blk(k).dev = d
                       THEN 1 ELSE 0

\* C7, amended: per interface name, parseText returns one snapshot for each
\* cake_mq parent (interface, handle) and one for each CAKE block that is no
\* child of a cake_mq parent of the report (standalone, or an orphan child);
\* the children of a cake_mq parent are merged and never emitted separately.
C7_OneSnapshotPerGroupOrBlock ==
    pdone =>
        \A d \in Devs :
            Named(d) = Cardinality({k \in 1..Len(report) : Emits(k) /\ Blk(k).dev = d})

\* two hardware-queue blocks under one cake_mq parent gave one snapshot
C7_Witness ==
    /\ pdone
    /\ \E j \in Groups : Len(ChildrenFrom(j, 1)) >= 2 /\ Named(Blk(j).dev) = 1

\* C8: for every group of children that resolve to a cake_mq parent of the
\* same interface, parseText emits exactly one merged snapshot, at the
\* parent's position in block order, with the parent's handle, interface,
\* header and time stamp and the first child's configuration; no child of the
\* group is emitted separately, and every standalone CAKE block is still
\* emitted as its own snapshot.
C8_MergedAtParentPosition ==
    pdone =>
        /\ Len(result) = Cardinality({k \in 1..Len(report) : Emits(k)})
        /\ \A j \in Groups :
               LET m == result[EmitPos(j)]
                   first == Alone(ChildrenFrom(j, 1)[1])
               IN /\ m.Handle = Blk(j).handle
                  /\ m.Interface = Blk(j).dev
                  /\ m.RawHeader = Blk(j).text[1]
                  /\ m.UpdatedAt = j
                  /\ m.Bandwidth = first.Bandwidth
                  /\ m.Direction = first.Direction
        /\ \A k \in 1..Len(report) :
               Blk(k).kind = "cake" /\ Blk(k).parent = <<>> => result[EmitPos(k)] = Alone(k)

\* a parent that follows one of its two children was merged, beside a
\* standalone CAKE block of the same report
C8_Witness ==
    /\ pdone
    /\ \E j \in Groups :
          /\ Len(ChildrenFrom(j, 1)) >= 2
          /\ ChildrenFrom(j, 1)[1] < j
    /\ \E k \in 1..Len(report) : Blk(k).kind = "cake" /\ Blk(k).parent = <<>>

\* C9: in a merged snapshot each global counter (sent bytes, sent packets,
\* drops, over-limit events, requeues, backlog packets) is the sum of that
\* counter over the snapshots of the group's children, and memory-total is
\* the first child's.
C9_GlobalCountersAreSums ==
    pdone =>
        \A j \in Groups :
            LET m == result[EmitPos(j)]
                ch == ChildrenFrom(j, 1)
            IN /\ \A f \in {"SentBytes", "SentPkts", "Dropped", "Overlimits", "Requeues", "BacklogPkts"} :
                      m[f] = SeqSum([i \in 1..Len(ch) |-> Alone(ch[i])[f]])
               /\ m.MemoryTotal = Alone(ch[1]).MemoryTotal

\* a group of two or more children whose counters and memory totals differ
C9_Witness ==
    /\ pdone
    /\ \E j \in Groups :
          LET m == result[EmitPos(j)]
              ch == ChildrenFrom(j, 1)
          IN /\ Len(ch) >= 2
             /\ m.SentBytes > Alone(ch[1]).SentBytes
             /\ m.Dropped > Alone(ch[1]).Dropped
             /\ Alone(ch[2]).MemoryTotal # m.MemoryTotal

\* C10: in a merged snapshot, at every tier position i the per-tier counters
\* (packets, bytes, way hits/misses/collisions, drops, marks, ACK drops, flow
\* counts) are the sums over the children that have a tier at i, the maximum
\* packet length is the maximum over those children, and the number of
\* tiers, their names and their configuration are the first child's.
C10_TierCountersAreSums ==
    pdone =>
        \A j \in Groups :
            LET m == result[EmitPos(j)]
                ch == ChildrenFrom(j, 1)
                q == [i \in 1..Len(ch) |-> Alone(ch[i]).Tiers]
            IN /\ Len(m.Tiers) = Len(q[1])
               /\ \A ti \in 1..Len(m.Tiers) :
                      /\ \A f \in {"Pkts", "Bytes", "WayInds", "WayMiss", "WayCols", "Drops",
                                   "Marks", "AckDrop", "SpFlows", "BkFlows", "UnFlows"} :
                             m.Tiers[ti][f] =
                                 SeqSum([i \in 1..Len(ch) |-> IF ti <= Len(q[i]) THEN q[i][ti][f] ELSE 0])
                      /\ \E i \in 1..Len(ch) : ti <= Len(q[i]) /\ m.Tiers[ti].MaxLen = q[i][ti].MaxLen
                      /\ \A i \in 1..Len(ch) : ti <= Len(q[i]) => m.Tiers[ti].MaxLen >= q[i][ti].MaxLen
                      /\ \A f \in {"Name", "Thresh", "Target", "Interval", "Quantum"} :
                             m.Tiers[ti][f] = q[1][ti][f]

\* a group whose first child has three tiers, where a later child has the
\* larger maximum packet length at one position and another child has fewer
\* tiers
C10_Witness ==
    /\ pdone
    /\ \E j \in Groups :
          LET m == result[EmitPos(j)]
              ch == ChildrenFrom(j, 1)
              q == [i \in 1..Len(ch) |-> Alone(ch[i]).Tiers]
          IN /\ Len(m.Tiers) = 3
             /\ \E ti \in 1..3 : m.Tiers[ti].MaxLen > q[1][ti].MaxLen /\ m.Tiers[ti].Bytes > q[1][ti].Bytes
             /\ \E i \in 1..Len(ch) : Len(q[i]) < 3

\* C11: in a merged snapshot each per-tier delay string (peak, average,
\* sparse-flow) at position i is the string of one of the children at i, and
\* its value in microseconds is greater than or equal to the value of every
\* child's string at i, whatever the units and the order of the children.
C11_DelayIsLargestOfChildren ==
    pdone =>
        \A j \in Groups :
            LET m == result[EmitPos(j)]
                ch == ChildrenFrom(j, 1)
                q == [i \in 1..Len(ch) |-> Alone(ch[i]).Tiers]
            IN \A ti \in 1..Len(m.Tiers) : \A f \in {"PkDelay", "AvDelay", "SpDelay"} :
                   /\ \E i \in 1..Len(ch) : ti <= Len(q[i]) /\ m.Tiers[ti][f] = q[i][ti][f]
                   /\ \A i \in 1..Len(ch) :
                          ti <= Len(q[i]) =>
                              FGe(cakeParseDelayUsec(m.Tiers[ti][f]), cakeParseDelayUsec(q[i][ti][f]))

\* a group where the merged sparse-flow delay is a later child's string, in
\* another unit than the first child's and larger than it
C11_Witness ==
    /\ pdone
    /\ \E j \in Groups :
          LET m == result[EmitPos(j)]
              ch == ChildrenFrom(j, 1)
              q == [i \in 1..Len(ch) |-> Alone(ch[i]).Tiers]
          IN /\ Len(ch) >= 2
             /\ \E ti \in 1..Len(m.Tiers) :
                   /\ HasSuffix(q[1][ti].SpDelay, <<"m", "s">>)
                   /\ ~HasSuffix(m.Tiers[ti].SpDelay, <<"m", "s">>)
                   /\ FGt(cakeParseDelayUsec(m.Tiers[ti].SpDelay), cakeParseDelayUsec(q[1][ti].SpDelay))

\* the option tokens of the header of each block of the catalogue (evaluated
\* once), and of block k of the report
HeaderOptions ==
    [c \in 1..Len(Catalogue) |->
        LET fs == Fields(Catalogue[c].text[1]) IN {fs[i] : i \in 6..Len(fs)}]

HeaderTokens(k) == HeaderOptions[report[k]]

\* C12: header parsing yields ATM/PTM mode "atm" for the token atm, "ptm"
\* for the token ptm, and the empty string for the token noatm or its alias
\* raw.
C12_ATMModeOfHeader ==
    pdone =>
        \A k \in 1..Len(report) :
            Blk(k).kind = "cake" /\ Emits(k) =>
                LET mode == result[EmitPos(k)].ATMMode
                IN /\ <<"a", "t", "m">> \in HeaderTokens(k) => mode = <<"a", "t", "m">>
                   /\ <<"p", "t", "m">> \in HeaderTokens(k) => mode = <<"p", "t", "m">>
                   /\ <<"n", "o", "a", "t", "m">> \in HeaderTokens(k) => mode = <<>>
                   /\ <<"r", "a", "w">> \in HeaderTokens(k) => mode = <<>>

\* C13: a cake_mq parent block with no matching child block is emitted as
\* one snapshot that carries only identity fields: its counters are all zero
\* and its tier list is empty, whatever other lines the parent block has.
C13_ChildlessParentIdentityOnly ==
    pdone =>
        \A j \in 1..Len(report) :
            Blk(j).kind = "cake_mq" /\ Emits(j) /\ ChildrenFrom(j, 1) = <<>> =>
                LET m == result[EmitPos(j)]
                IN /\ m.Interface = Blk(j).dev
                   /\ m.Handle = Blk(j).handle
                   /\ \A f \in {"SentBytes", "SentPkts", "Dropped", "Overlimits", "Requeues", "BacklogPkts"} :
                          m[f] = 0
                   /\ m.Tiers = <<>>

\* block k is a CAKE block with a parent reference that names no cake_mq
\* block of its interface in the report
Orphan(k) ==
    /\ Blk(k).kind = "cake"
    /\ Blk(k).parent # <<>>
    /\ \A j \in 1..Len(report) : ~ChildOf(k, j)

\* C14: a child CAKE block whose parent reference matches no cake_mq parent
\* block of the same interface in the same report is emitted as a snapshot
\* of its own, equal to what parsing that block alone gives, at its own
\* position in block order.
C14_OrphanEmittedAlone ==
    pdone =>
        \A k \in 1..Len(report) :
            Orphan(k) => /\ EmitPos(k) <= Len(result)
                         /\ result[EmitPos(k)] = Alone(k)

\* an orphan under a plain mq root, after a merged group of another
\* interface whose parent has the handle the orphan refers to
C14_Witness ==
    /\ pdone
    /\ \E k \in 1..Len(report) :
          /\ Orphan(k)
          /\ \E j \in Groups : j < k /\ Blk(j).handle = Blk(k).parent
          /\ \E o \in 1..(k - 1) : Blk(o).kind = "other"

\* the number of CAKE blocks among the first k blocks of the report
CakeUpTo(k) == Cardinality({i \in 1..k : Blk(i).kind = "cake"})

\* C15: for a report with N CAKE blocks none of which belongs to a
\* multi-queue group, interleaved with blocks of other disciplines, parseText
\* returns exactly N snapshots, in the order of the blocks, and the empty
\* list when N is 0.
C15_OneSnapshotPerPlainBlock ==
    pdone /\ (\A k \in 1..Len(report) : Blk(k).kind # "cake_mq") =>
        /\ Len(result) = CakeUpTo(Len(report))
        /\ \A k \in 1..Len(report) : Blk(k).kind = "cake" => result[CakeUpTo(k)] = Alone(k)

\* three CAKE blocks around a block of another discipline
C15_Witness ==
    /\ pdone
    /\ \A k \in 1..Len(report) : Blk(k).kind # "cake_mq"
    /\ CakeUpTo(Len(report)) = 3
    /\ \E k \in 2..(Len(report) - 1) : Blk(k).kind = "other"

\* the row keywords of a tier table and the tier field each is recorded in
TierRowFields ==
    {[row |-> <<"t", "h", "r", "e", "s", "h">>, field |-> "Thresh", number |-> FALSE],
     [row |-> <<"t", "a", "r", "g", "e", "t">>, field |-> "Target", number |-> FALSE],
     [row |-> <<"i", "n", "t", "e", "r", "v", "a", "l">>, field |-> "Interval", number |-> FALSE],
     [row |-> <<"p", "k", "_", "d", "e", "l", "a", "y">>, field |-> "PkDelay", number |-> FALSE],
     [row |-> <<"a", "v", "_", "d", "e", "l", "a", "y">>, field |-> "AvDelay", number |-> FALSE],
     [row |-> <<"s", "p", "_", "d", "e", "l", "a", "y">>, field |-> "SpDelay", number |-> FALSE],
     [row |-> <<"b", "a", "c", "k", "l", "o", "g">>, field |-> "Backlog", number |-> FALSE],
     [row |-> <<"p", "k", "t", "s">>, field |-> "Pkts", number |-> TRUE],
     [row |-> <<"b", "y", "t", "e", "s">>, field |-> "Bytes", number |-> TRUE],
     [row |-> <<"w", "a", "y", "_", "i", "n", "d", "s">>, field |-> "WayInds", number |-> TRUE],
     [row |-> <<"w", "a", "y", "_", "m", "i", "s", "s">>, field |-> "WayMiss", number |-> TRUE],
     [row |-> <<"w", "a", "y", "_", "c", "o", "l", "s">>, field |-> "WayCols", number |-> TRUE],
     [row |-> <<"d", "r", "o", "p", "s">>, field |-> "Drops", number |-> TRUE],
     [row |-> <<"m", "a", "r", "k", "s">>, field |-> "Marks", number |-> TRUE],
     [row |-> <<"a", "c", "k", "_", "d", "r", "o", "p">>, field |-> "AckDrop", number |-> TRUE],
     [row |-> <<"s", "p", "_", "f", "l", "o", "w", "s">>, field |-> "SpFlows", number |-> TRUE],
     [row |-> <<"b", "k", "_", "f", "l", "o", "w", "s">>, field |-> "BkFlows", number |-> TRUE],
     [row |-> <<"u", "n", "_", "f", "l", "o", "w", "s">>, field |-> "UnFlows", number |-> TRUE],
     [row |-> <<"m", "a", "x", "_", "l", "e", "n">>, field |-> "MaxLen", number |-> TRUE],
     [row |-> <<"q", "u", "a", "n", "t", "u", "m">>, field |-> "Quantum", number |-> TRUE]}

\* the fields of each line of block k
LineFields(k) == [l \in 1..Len(Blk(k).text) |-> Fields(Blk(k).text[l])]

\* the line that names the tiers in a block of lines fs, 0 when the block has
\* no table
TableStart(fs) ==
    LET heads == {l \in 2..Len(fs) : fs[l] # <<>> /\ fs[l][1] \in knownTierWords}
    IN IF heads = {} THEN 0 ELSE CHOOSE l \in heads : \A m \in heads : l <= m

\* the values of the row of the table that begins with the keyword kw (the
\* last such row), <<>> when the table has no such row
TableRow(fs, kw) ==
    LET at == {l \in (TableStart(fs) + 1)..Len(fs) : Len(fs[l]) >= 2 /\ fs[l][1] = kw}
    IN IF at = {} THEN <<>> ELSE Tail(fs[CHOOSE l \in at : \A m \in at : l >= m])

TableValue(fs, kw, i) == IF i <= Len(TableRow(fs, kw)) THEN TableRow(fs, kw)[i] ELSE <<>>

\* every tier of every CAKE block emitted on its own holds, for the keywords of
\* keys, the value of its column in the row of that keyword
TierRowsRecorded(keys) ==
    pdone =>
        \A k \in 1..Len(report) :
            Emits(k) /\ Blk(k).kind = "cake" =>
                \A fs \in {LineFields(k)} :
                    TableStart(fs) # 0 =>
                        \A i \in 1..Len(result[EmitPos(k)].Tiers) : \A e \in keys :
                            result[EmitPos(k)].Tiers[i][e.field] =
                                IF e.number THEN parseUint64(TableValue(fs, e.row, i))
                                ELSE TableValue(fs, e.row, i)

\* C16: for any CAKE block with a tier table, every data row of the table is
\* recorded per tier: for each row keyword, backlog included, tier i's field
\* holds the i-th value of that row, and a missing row or value gives the
\* empty string or zero.
C16_EveryTierRowRecorded == TierRowsRecorded(TierRowFields)

\* the same for every row keyword but backlog
TierRowsButBacklogRecorded ==
    TierRowsRecorded({e \in TierRowFields : e.field # "Backlog"})

\* a token made of decimal digits
IsNumber(w) == Len(w) > 0 /\ \A i \in 1..Len(w) : IsDigit(w[i])

\* the tier names of a header line when "Tin" joins with the following token
\* whatever it is (tinJoins) or only when it is a number
RECURSIVE JoinedNames(_, _)
JoinedNames(ws, tinJoins) ==
    IF Len(ws) = 0 THEN <<>>
    ELSE IF Len(ws) >= 2 /\ ws[1] = <<"B", "e", "s", "t">> /\ ws[2] = <<"E", "f", "f", "o", "r", "t">>
         THEN <<<<"B", "e", "s", "t", " ", "E", "f", "f", "o", "r", "t">>>> \o JoinedNames(SubSeq(ws, 3, Len(ws)), tinJoins)
    ELSE IF Len(ws) >= 2 /\ ws[1] = <<"T", "i", "n">> /\ (tinJoins \/ IsNumber(ws[2]))
         THEN <<ws[1] \o <<" ">> \o ws[2]>> \o JoinedNames(SubSeq(ws, 3, Len(ws)), tinJoins)
    ELSE <<ws[1]>> \o JoinedNames(Tail(ws), tinJoins)

\* C17: tier-name parsing joins Best, Effort into "Best Effort", joins Tin
\* followed by a number into "Tin N", and passes every other token through
\* unchanged as its own tier name.
C17_TierNamesJoined == tdone => tnames = JoinedNames(hdrWords, FALSE)

\* the names the code forms: Tin joins with whatever token follows it
TierNamesTinJoinsAnyToken == tdone => tnames = JoinedNames(hdrWords, TRUE)

\* C18: the direction of every parsed CAKE block is egress unless its header
\* options contain the keyword ingress, in which case it is ingress, whether
\* the block is attached at root or through a parent reference.
C18_DirectionFromKeywordOnly ==
    pdone =>
        \A k \in 1..Len(report) :
            Blk(k).kind # "other" =>
                LET want == IF <<"i", "n", "g", "r", "e", "s", "s">> \in HeaderTokens(k) THEN <<"i", "n", "g", "r", "e", "s", "s">> ELSE <<"e", "g", "r", "e", "s", "s">>
                IN /\ Alone(k).Direction = want
                   /\ Emits(k) /\ k \notin Groups => result[EmitPos(k)].Direction = want

\* ingress and egress blocks, attached at root and under a parent, were parsed
C18_Witness ==
    /\ pdone
    /\ \A root \in BOOLEAN, ingress \in BOOLEAN :
           \E k \in 1..Len(report) :
               /\ Blk(k).kind # "other"
               /\ Emits(k) /\ k \notin Groups
               /\ (Blk(k).parent = <<>>) = root
               /\ (<<"i", "n", "g", "r", "e", "s", "s">> \in HeaderTokens(k)) = ingress

\* the largest parsed value, in milliseconds, of a delay field over the tiers,
\* 0 when there are no tiers
TierDelayMax(tiers, field) ==
    IF Len(tiers) = 0 THEN FZero
    ELSE LET vs == {parseDelayMs(tiers[i][field]) : i \in 1..Len(tiers)}
         IN CHOOSE v \in vs : \A w \in vs : FGe(v, w)

\* the maximum delays written back on a later observation are the largest
\* parsed tier values
DelayMaximaWrittenBack ==
    \A i \in 1..Len(stats) :
        ~prior[i].first =>
            /\ stats[i].MaxAvDelayMs = TierDelayMax(stats[i].Tiers, "AvDelay")
            /\ stats[i].MaxPkDelayMs = TierDelayMax(stats[i].Tiers, "PkDelay")

\* the elapsed time the rates are divided by is positive, and the previous
\* transmit counter was the sent-bytes counter itself
SoundObservation(i) ==
    /\ elapsedSeconds(lastNow, prior[i].prevTime, pollInterval) > 0
    /\ prior[i].prevTxBytes = prior[i].SentBytes

\* on a later observation with both counters higher the written-back rates
\* are strictly positive; with onlySound, for the sound observations only
RatesPositive(onlySound) ==
    \A i \in 1..Len(stats) :
        /\ ~prior[i].first
        /\ onlySound => SoundObservation(i)
        /\ stats[i].SentBytes > prior[i].SentBytes
        /\ stats[i].Dropped > prior[i].Dropped
        => FGt(stats[i].TxBytesPerS, FZero) /\ FGt(stats[i].DropsPerS, FZero)

\* C19: on the second and every later observation of an interface, higher
\* sent-bytes and drop counters give strictly positive written-back transmit
\* and drop rates, and the written-back maximum average and peak delay are the
\* maximum over the tiers of the parsed delay in milliseconds (0 without tiers).
C19_LaterObservationDerivedFields ==
    RatesPositive(FALSE) /\ DelayMaximaWrittenBack

\* the same for the observations with a positive elapsed time and a previous
\* transmit counter taken from the sent-bytes counter
LaterObservationOnSoundClock ==
    RatesPositive(TRUE) /\ DelayMaximaWrittenBack

\* no poll starts once the context is cancelled
NoPollStartsAfterCancel == [][ctxDone => ~(spc = "select" /\ spc' = "collect")]_vars

\* once the context is cancelled the poller loop returns
PollerTerminates == ctxDone ~> (spc = "returned")

\* the history store changes only by a Record call that ran to its end
StoreChangesByWholeRecord ==
    [][ifaces' # ifaces =>
           /\ spc = "record" /\ spc' = "publish"
           /\ \E now \in ServerTimes :
                  ifaces' = Prune(RecordLoop([ifaces |-> ifaces, stats |-> polled,
                                              prior |-> [i \in 1..Len(polled) |-> 0],
                                              obs |-> obs, pushed |-> pushed, npushed |-> npushed],
                                             1, now, now, pollInterval, capacity).ifaces, polled)]_vars

\* C20: once the poller's context is cancelled no poll starts, the poller loop
\* terminates, and a poll in flight at the cancellation leaves the history
\* store in a state that a completed Record call could have produced.
C20_NoPollAfterCancel ==
    /\ NoPollStartsAfterCancel
    /\ PollerTerminates
    /\ StoreChangesByWholeRecord

\* a poll whose data collection failed changes nothing: no Record call, the
\* store and the published stats as they were, no broadcast; the poller is
\* back at its select
FailedPollChangesNothing ==
    spc = "collect" /\ spc' = "select" =>
        /\ UNCHANGED hvars
        /\ sstats' = sstats
        /\ clients' = clients
        /\ bcasts' = bcasts

\* the rates a poll writes for an interface seen before are its counter
\* differences over the time since the last poll that reached Record, however
\* many polls failed in between (the nominal interval when that time is zero)
RatesOverWallClock ==
    spc = "record" /\ spc' = "publish" =>
        \A i \in 1..Len(stats') :
            ~prior'[i].first =>
                LET name == stats'[i].Interface
                    el == IF lastNow' - lastNow > 0 THEN lastNow' - lastNow ELSE pollInterval
                    rate(cur, prev) == IF cur >= prev THEN FDiv(cur - prev, el) ELSE FZero
                IN /\ stats'[i].TxBytesPerS = rate(stats'[i].SentBytes, obs[name].SentBytes)
                   /\ stats'[i].DropsPerS = rate(stats'[i].Dropped, obs[name].Dropped)

\* C21: when the data collection of a poll fails the poll is skipped: Record
\* is not called, the history store and the published stats are unchanged,
\* nothing is broadcast, and the next tick polls normally, its rates computed
\* over the wall-clock time since the last successful observation.
C21_FailedPollSkipped == [][FailedPollChangesNothing /\ RatesOverWallClock]_vars

\* a poll after a failed one has recorded an interface seen two seconds before
C21_Witness ==
    /\ spc = "publish"
    /\ missed >= 1
    /\ Len(stats) = 1
    /\ ~prior[1].first
    /\ lastNow - prior[1].prevTime = 2
    /\ FGt(stats[1].TxBytesPerS, FZero)

\* C22: after every Record call the interface names for which the store
\* holds state are exactly the names in that call's list.
C22_StateNamesAreListNames ==
    calls >= 1 => DOMAIN ifaces = ActiveNames(stats)

\* the last call dropped one name, created another, or was given no name at
\* all while the store held state
C22_Witness ==
    /\ calls >= 2
    /\ pruned # {}
    /\ \/ fresh # {}
       \/ stats = <<>>

\* the names the last Record call found without state although an earlier
\* call had held state for them: absent from some call, present in this one
Reappeared == fresh \cap gone

\* a reappeared name is a first observation when onlyOnce limits the
\* statement to names the list holds once
ReappearanceIsFirst(onlyOnce) ==
    \A n \in Reappeared :
        (onlyOnce => Cardinality({i \in 1..Len(stats) : stats[i].Interface = n}) = 1) =>
            /\ npushed[n] = 0
            /\ n \notin DOMAIN Snapshot(ifaces, capacity)
            /\ \A i \in 1..Len(stats) :
                   stats[i].Interface = n => prior[i].first /\ DerivedZero(stats[i])

\* what Snapshot returns for a name are samples pushed since its present
\* state was created, so none from before an absence
OldSamplesStayGone ==
    \A n \in DOMAIN ifaces :
        LET smps == ordered(ifaces[n], capacity)
        IN /\ Len(smps) <= npushed[n]
           /\ smps = pushed[n]

\* no entry of a reappeared name has a rate computed against the counters
\* seen before the absence: its rates are zero or taken against an earlier
\* entry of the same call
NoRateAgainstOldCounters ==
    \A i \in 1..Len(stats) :
        stats[i].Interface \in Reappeared /\ ~prior[i].first =>
            \E j \in 1..(i - 1) :
                /\ stats[j].Interface = stats[i].Interface
                /\ prior[i].SentBytes = stats[j].SentBytes
                /\ prior[i].Dropped = stats[j].Dropped
                /\ prior[i].prevTime = lastNow

\* C23: when an interface is absent from one Record call and present in a
\* later one, the later call treats it as a first observation: it pushes no
\* sample, computes no rate against the counters seen before the absence,
\* and no sample recorded before the absence appears in a Snapshot again.
C23_ReappearanceIsFirstObservation ==
    /\ ReappearanceIsFirst(FALSE)
    /\ NoRateAgainstOldCounters
    /\ OldSamplesStayGone

\* the same for the names that the later call's list holds once
ReappearanceOnceIsFirstObservation ==
    /\ ReappearanceIsFirst(TRUE)
    /\ NoRateAgainstOldCounters
    /\ OldSamplesStayGone

\* C24: in Record, when the time elapsed since the interface's previous
\* observation is zero or negative both rates are the counter differences
\* divided by the nominal poll interval handed to Record; otherwise they are
\* divided by the measured elapsed time.
C24_DivisorIsElapsedOrInterval ==
    \A i \in 1..Len(stats) :
        ~prior[i].first =>
            LET measured == lastNow - prior[i].prevTime
                divisor == IF measured <= 0 THEN pollInterval ELSE measured
                tx == txBytes(stats[i])
            IN /\ tx >= prior[i].prevTxBytes =>
                      /\ stats[i].TxBytesPerS = FDiv(tx - prior[i].prevTxBytes, divisor)
                      /\ prior[i].sample.Tx = FDiv(tx - prior[i].prevTxBytes, divisor)
               /\ stats[i].Dropped >= prior[i].Dropped =>
                      /\ stats[i].DropsPerS = FDiv(stats[i].Dropped - prior[i].Dropped, divisor)
                      /\ prior[i].sample.Dr = FDiv(stats[i].Dropped - prior[i].Dropped, divisor)

\* both counters rose while the clock went back by a second, with a nominal
\* interval of one second
C24_Witness ==
    /\ pollInterval = 1
    /\ \E i \in 1..Len(stats) :
           /\ ~prior[i].first
           /\ lastNow - prior[i].prevTime < 0
           /\ txBytes(stats[i]) > prior[i].prevTxBytes
           /\ stats[i].Dropped > prior[i].Dropped
           /\ stats[i].TxBytesPerS = FDiv(1, 1)
           /\ stats[i].DropsPerS = FDiv(1, 1)

\* the index of the last entry of the list that names n
LastEntry(n) ==
    CHOOSE i \in 1..Len(stats) :
        /\ stats[i].Interface = n
        /\ \A j \in (i + 1)..Len(stats) : stats[j].Interface # n

\* an observation's transmit-byte total: its sent-bytes counter, or with
\* tierFallback what txBytes makes of it
ObservedTotal(cs, tierFallback) == IF tierFallback THEN txBytes(cs) ELSE cs.SentBytes

\* the state kept after an observation that was not the first holds that
\* observation's total, drop count and time, and an observation that follows
\* a non-first one was compared with the counters of the one before it
PrevIsLastObservation(tierFallback) ==
    \A n \in DOMAIN ifaces :
        LET i == LastEntry(n)
        IN ~prior[i].first =>
               /\ ifaces[n].prevTxBytes = ObservedTotal(stats[i], tierFallback)
               /\ ifaces[n].prevDropped = stats[i].Dropped
               /\ ifaces[n].prevTime = lastNow
               /\ npushed[n] >= 2 =>
                      /\ (tierFallback => prior[i].SentBytes > 0) =>
                             prior[i].prevTxBytes = prior[i].SentBytes
                      /\ guardedRate(stats[i].Dropped, prior[i].Dropped,
                                     elapsedSeconds(lastNow, prior[i].prevTime, pollInterval))
                             = stats[i].DropsPerS

\* C25: after every observation of an interface that is not its first, one
\* in which a counter went down included, the stored previous transmit-byte
\* total, previous drop count and previous time are that observation's
\* values, so the observation after a counter reset computes its rates
\* against the post-reset counters.
C25_PreviousValuesAreLastObservation == PrevIsLastObservation(FALSE)

\* the same with the total that txBytes takes from the tiers when the
\* sent-bytes counter is zero
PreviousValuesAreLastTxBytes == PrevIsLastObservation(TRUE)

\* what a caller reads in an element of a result it holds
Deref(n, cell) ==
    IF cell.addr >= 0 /\ n \in DOMAIN ifaces THEN ifaces[n].samples[cell.addr] ELSE cell.val

\* the contents of the held Snapshot result as its holder reads them now
HeldContents ==
    [n \in DOMAIN held |-> [k \in 1..Len(held[n]) |-> Deref(n, held[n][k])]]

\* C26: the map and slices a Snapshot call returned are an independent copy:
\* no later Record call (pushing, wrapping over the oldest slot, pruning)
\* changes the contents of a result already returned.
C26_SnapshotResultIsIndependent ==
    [][held' = held => HeldContents' = HeldContents]_vars

\* a result taken before the buffer of eth0 was full is still held after the
\* buffer has wrapped over its oldest slot
C26_Witness ==
    /\ eth0 \in DOMAIN held
    /\ Len(held[eth0]) < capacity
    /\ eth0 \in DOMAIN ifaces
    /\ npushed[eth0] > capacity
    /\ HeldContents[eth0] # ordered(ifaces[eth0], capacity)

\* C27: in every reachable state of a HistoryStore created with any
\* requested capacity (a request below 2 is raised to 2), each interface's
\* ring buffer has 0 <= head < capacity and 0 <= count <= capacity, and head
\* equals count as long as count is below capacity.
C27_RingCursorInBounds ==
    /\ capacity >= 2
    /\ \A n \in DOMAIN ifaces :
           LET st == ifaces[n]
           IN /\ 0 <= st.head /\ st.head < capacity
              /\ 0 <= st.count /\ st.count <= capacity
              /\ st.count < capacity => st.head = st.count
              /\ DOMAIN st.samples = 0..(capacity - 1)

\* the buffer of eth0 is full and its cursor has gone round more than once
C27_Witness ==
    /\ eth0 \in DOMAIN ifaces
    /\ ifaces[eth0].count = capacity
    /\ npushed[eth0] > 2 * capacity
    /\ ifaces[eth0].head # 0

\* the poller is never parked on a client's channel
BroadcastNeverBlocks == spc # "blocked"

\* no channel holds more than sseBufSize events
QueuesWithinBuffer == \A c \in DOMAIN clients : Len(clients[c]) <= sseBufSize

\* an iteration of broadcast's loop gives the event to a client with room,
\* leaves a full channel as it is, and touches no other client's channel
SendOrDropPerClient ==
    \A c \in bleft \ bleft' :
        /\ clients'[c] = IF Len(clients[c]) < sseBufSize
                         THEN Append(clients[c], bcasts) ELSE clients[c]
        /\ \A d \in (DOMAIN clients) \ {c} : clients'[d] = clients[d]
        /\ DOMAIN clients' = DOMAIN clients

\* C28: broadcasting a poll result never blocks the poller: for each
\* registered SSE client whose buffered channel (capacity 4) is full the
\* event is dropped for that client only, every client whose channel has
\* room receives it, and no client's queue ever holds more than 4 events.
C28_BroadcastNeverBlocks ==
    /\ [](BroadcastNeverBlocks /\ QueuesWithinBuffer)
    /\ [][SendOrDropPerClient /\ (spc = "bcast" => spc' # "blocked")]_vars

\* a broadcast has been through both clients: the full channel of c1 was
\* left without the event, c2 got it
C28_Witness ==
    /\ spc = "bcast"
    /\ bleft = {}
    /\ DOMAIN clients = SSEClients
    /\ Len(clients["c1"]) = sseBufSize
    /\ clients["c1"][sseBufSize] # bcasts
    /\ clients["c2"] # <<>>
    /\ clients["c2"][Len(clients["c2"])] = bcasts

BacklogWord == <<"b", "a", "c", "k", "l", "o", "g">>

\* the lines of a block that begin with the word backlog: its own backlog
\* line (before the tier table) when own, the rows of the table otherwise
BacklogLines(fs, own) ==
    {l \in 2..Len(fs) :
        /\ Len(fs[l]) >= 2
        /\ fs[l][1] = BacklogWord
        /\ own <=> (TableStart(fs) = 0 \/ l < TableStart(fs))}

\* the global backlog of every CAKE block emitted on its own is that of its
\* own backlog line; with tableFree only for blocks whose table has no
\* backlog row
GlobalBacklogIsOwnLine(tableFree) ==
    pdone =>
        \A k \in 1..Len(report) :
            Emits(k) /\ Blk(k).kind = "cake" =>
                \A fs \in {LineFields(k)} :
                    (tableFree => BacklogLines(fs, FALSE) = {}) =>
                        \A l \in BacklogLines(fs, TRUE) :
                            Len(fs[l]) >= 3 /\ (\A m \in BacklogLines(fs, TRUE) : m <= l) =>
                                /\ result[EmitPos(k)].BacklogBytes = fs[l][2]
                                /\ result[EmitPos(k)].BacklogPkts =
                                       parseUint64(TrimSuffix(fs[l][3], <<"p">>))

\* C29: the global backlog bytes and backlog packets of a snapshot are those
\* of the block's own backlog line, the one after the traffic-totals line;
\* no row of the tier table, the table's per-tier backlog row in particular,
\* changes them.
C29_GlobalBacklogFromOwnLine == GlobalBacklogIsOwnLine(FALSE)

\* the same for the blocks whose tier table has no backlog row
GlobalBacklogWithoutTableRow == GlobalBacklogIsOwnLine(TRUE)

\* the entries of the last call's list for which a sample was pushed for n
PushedEntries(n) == {i \in 1..Len(stats) : stats[i].Interface = n /\ ~prior[i].first}

\* the last Record call pushed at most one sample per name and none for a
\* name without state when it began; with distinctOnly only for lists that
\* hold no name twice
OnePushPerName(distinctOnly) ==
    (distinctOnly => Cardinality(ActiveNames(stats)) = Len(stats)) =>
        \A n \in ActiveNames(stats) :
            /\ Cardinality(PushedEntries(n)) <= 1
            /\ n \in fresh => PushedEntries(n) = {} /\ npushed[n] = 0
            /\ n \notin fresh => Cardinality(PushedEntries(n)) = 1

\* C30: a single Record call pushes at most one HistorySample per interface
\* name, and none for a name that had no state when the call began, also
\* when the list it is given holds the same name more than once.
C30_AtMostOneSamplePerCall == OnePushPerName(FALSE)

\* the same for lists in which every name occurs once
OneSamplePerCallDistinctNames == OnePushPerName(TRUE)

====
